---- MODULE Spec2Model ----
(***************************************************************************)
(* Filter-context engine of agent_ia_target: the conflict resolver, the    *)
(* text detector, the JSON filter manager, the unified filter store and    *)
(* the per-turn handler of the Streamlit application.                      *)
(*                                                                         *)
(* Conventions.  A Python str is the sequence of its characters, a Python  *)
(* value is a tagged record [t, v] (t in "null", "bool", "str", "list",    *)
(* "dict"),                                                                *)
(* a Python dict is the sequence of its [k, v] items in insertion order.   *)
(* Dict keys are atoms whose spelling is given by KeyText.                 *)
(***************************************************************************)
EXTENDS Naturals, Integers, Sequences, FiniteSets, TLC

VARIABLES
    r_text,         \* resolver call: the user text (when the candidates come from the detector)
    r_max_date,     \* resolver call: the max_date the detector is given
    r_now,          \* the system clock, what datetime.now() returns
    r_new,          \* resolver call: new_filters
    r_existing,     \* resolver call: existing_context
    r_strategy,     \* resolver call: resolution_strategy
    r_result,       \* resolver call: (resolved_context, conflicts_detected)
    r_pc,           \* resolver call: "text" | "ready" | "done"
    j_valid,        \* JSONFilterManager.valores_validos, the domain index of the dataset
    j_ctx,          \* JSON manager call: the context given
    j_json,         \* JSON manager call: json_filtros, the extracted structure
    j_disabled,     \* JSON manager call: filtros_desabilitados
    j_result,       \* JSON manager call: the context returned and the changes reported
    j_persist,      \* JSONFilterManager.filtros_persistentes
    j_pc,           \* JSON manager call: "idle" | "merge" | "merged" | "apply" | "applied"
    s_state,        \* UnifiedFilterManager.filter_state: [filters, disabled]
    s_hash,         \* ContextSynchronizer.last_agent_context_hash
    s_hist,         \* the store's latest two calls, newest first: [op, id, before, n]
    a_agent,        \* the agent object: [id, persistent_context]
    a_last_context, \* st.session_state.last_context
    a_last_agent_id,\* st.session_state.last_agent_id, 0 when not set
    a_disabled,     \* st.session_state.disabled_filters
    a_turn          \* the latest turn: what it started from, what agent.run was given, what it stored

rvars == <<r_text, r_max_date, r_now, r_new, r_existing, r_strategy, r_result, r_pc>>
jvars == <<j_valid, j_ctx, j_json, j_disabled, j_result, j_persist, j_pc>>
svars == <<s_state, s_hash, s_hist>>
avars == <<a_agent, a_last_context, a_last_agent_id, a_disabled, a_turn>>
vars == <<rvars, jvars, svars, avars>>

----------------------------------------------------------------------------
(* Python values *)

Null == [t |-> "null", v |-> <<>>]
True_ == [t |-> "bool", v |-> <<"1">>]
False_ == [t |-> "bool", v |-> <<>>]
Str(s) == [t |-> "str", v |-> s]
List(l) == [t |-> "list", v |-> l]
Dict(d) == [t |-> "dict", v |-> d]
EmptyStr == Str(<<>>)
EmptyList == List(<<>>)

\* bool(x) of a Python value
Truthy(x) == x.v # <<>>

----------------------------------------------------------------------------
(* Python dicts, insertion-ordered *)

EmptyDict == <<>>
Item(k, v) == [k |-> k, v |-> v]
Keys(d) == {d[i].k : i \in DOMAIN d}
Has(d, k) == \E i \in DOMAIN d : d[i].k = k
Get(d, k) == d[CHOOSE i \in DOMAIN d : d[i].k = k].v
\* d.get(k): None when k is absent
GetOrNull(d, k) == IF Has(d, k) THEN Get(d, k) ELSE Null
\* d[k] = v: an existing key keeps its position
Put(d, k, v) ==
    IF Has(d, k)
    THEN [i \in DOMAIN d |-> IF d[i].k = k THEN Item(k, v) ELSE d[i]]
    ELSE Append(d, Item(k, v))
\* d.pop(k, None)
Pop(d, k) == SelectSeq(d, LAMBDA e : e.k # k)

RECURSIVE Update(_, _)
\* d.update(e)
Update(d, e) == IF e = <<>> THEN d ELSE Update(Put(d, Head(e).k, Head(e).v), Tail(e))

\* {f: v for f, v in d.items() if f in fields}
Restrict(d, fields) == SelectSeq(d, LAMBDA e : \E j \in DOMAIN fields : fields[j] = e.k)

\* d1 == d2 of two dicts: the order of insertion does not count
DictEq(a, b) == Keys(a) = Keys(b) /\ \A k \in Keys(a) : Get(a, k) = Get(b, k)

InSeq(x, s) == \E i \in DOMAIN s : s[i] = x

----------------------------------------------------------------------------
(* Python strings: sequences of characters *)

\* s.startswith(p), s.endswith(p), p in s
StartsWith(s, p) == Len(p) <= Len(s) /\ SubSeq(s, 1, Len(p)) = p
EndsWith(s, p) == Len(p) <= Len(s) /\ SubSeq(s, Len(s) - Len(p) + 1, Len(s)) = p
Contains(s, p) == \E i \in 1..(Len(s) - Len(p) + 1) : SubSeq(s, i, i + Len(p) - 1) = p

LowerChar(c) ==
    CASE c = "A" -> "a"
      [] c = "B" -> "b"
      [] c = "C" -> "c"
      [] c = "D" -> "d"
      [] c = "E" -> "e"
      [] c = "F" -> "f"
      [] c = "G" -> "g"
      [] c = "H" -> "h"
      [] c = "I" -> "i"
      [] c = "J" -> "j"
      [] c = "K" -> "k"
      [] c = "L" -> "l"
      [] c = "M" -> "m"
      [] c = "N" -> "n"
      [] c = "O" -> "o"
      [] c = "P" -> "p"
      [] c = "Q" -> "q"
      [] c = "R" -> "r"
      [] c = "S" -> "s"
      [] c = "T" -> "t"
      [] c = "U" -> "u"
      [] c = "V" -> "v"
      [] c = "W" -> "w"
      [] c = "X" -> "x"
      [] c = "Y" -> "y"
      [] c = "Z" -> "z"
      [] c = "Á" -> "á"
      [] c = "Ç" -> "ç"
      [] c = "Ã" -> "ã"
      [] c = "Ú" -> "ú"
      [] c = "Ê" -> "ê"
      [] c = "Õ" -> "õ"
      [] c = "Í" -> "í"
      [] OTHER -> c

UpperChar(c) ==
    CASE c = "a" -> "A"
      [] c = "b" -> "B"
      [] c = "c" -> "C"
      [] c = "d" -> "D"
      [] c = "e" -> "E"
      [] c = "f" -> "F"
      [] c = "g" -> "G"
      [] c = "h" -> "H"
      [] c = "i" -> "I"
      [] c = "j" -> "J"
      [] c = "k" -> "K"
      [] c = "l" -> "L"
      [] c = "m" -> "M"
      [] c = "n" -> "N"
      [] c = "o" -> "O"
      [] c = "p" -> "P"
      [] c = "q" -> "Q"
      [] c = "r" -> "R"
      [] c = "s" -> "S"
      [] c = "t" -> "T"
      [] c = "u" -> "U"
      [] c = "v" -> "V"
      [] c = "w" -> "W"
      [] c = "x" -> "X"
      [] c = "y" -> "Y"
      [] c = "z" -> "Z"
      [] c = "á" -> "Á"
      [] c = "ç" -> "Ç"
      [] c = "ã" -> "Ã"
      [] c = "ú" -> "Ú"
      [] c = "ê" -> "Ê"
      [] c = "õ" -> "Õ"
      [] c = "í" -> "Í"
      [] OTHER -> c

\* s.lower(), s.upper()
Lower(s) == [i \in DOMAIN s |-> LowerChar(s[i])]
Upper(s) == [i \in DOMAIN s |-> UpperChar(s[i])]

----------------------------------------------------------------------------
(* The field names of the program, and how each is spelled *)

AllKeys ==
    {"Data", "Data_>=", "Data_<", "Data_<=", "Data_>",
     "ano", "mes", "periodo", "Data_Inicio", "Data_Fim",
     "UF_Cliente", "Municipio_Cliente", "cidade", "estado", "municipio",
     "uf", "regiao", "Cod_Cliente", "Cliente", "cliente",
     "Cod_Segmento_Cliente", "segmento", "Cod_Familia_Produto", "Cod_Grupo_Produto", "Cod_Linha_Produto",
     "Des_Linha_Produto", "Produto", "produto", "linha", "Cod_Vendedor",
     "Cod_Regiao_Vendedor", "vendedor", "representante", "regiao_vendedor", "clear_all_filters",
     "limpar_filtros", "remover_filtros", "_filter_mode", "valor", "data",
     "uf_cliente", "municipio_cliente", "cod_cliente", "data_>=", "data_<"}

KeyText(k) ==
    CASE k = "Data" -> <<"D","a","t","a">>
      [] k = "Data_>=" -> <<"D","a","t","a","_",">","=">>
      [] k = "Data_<" -> <<"D","a","t","a","_","<">>
      [] k = "Data_<=" -> <<"D","a","t","a","_","<","=">>
      [] k = "Data_>" -> <<"D","a","t","a","_",">">>
      [] k = "ano" -> <<"a","n","o">>
      [] k = "mes" -> <<"m","e","s">>
      [] k = "periodo" -> <<"p","e","r","i","o","d","o">>
      [] k = "Data_Inicio" -> <<"D","a","t","a","_","I","n","i","c","i","o">>
      [] k = "Data_Fim" -> <<"D","a","t","a","_","F","i","m">>
      [] k = "UF_Cliente" -> <<"U","F","_","C","l","i","e","n","t","e">>
      [] k = "Municipio_Cliente" -> <<"M","u","n","i","c","i","p","i","o","_","C","l","i","e","n","t","e">>
      [] k = "cidade" -> <<"c","i","d","a","d","e">>
      [] k = "estado" -> <<"e","s","t","a","d","o">>
      [] k = "municipio" -> <<"m","u","n","i","c","i","p","i","o">>
      [] k = "uf" -> <<"u","f">>
      [] k = "regiao" -> <<"r","e","g","i","a","o">>
      [] k = "Cod_Cliente" -> <<"C","o","d","_","C","l","i","e","n","t","e">>
      [] k = "Cliente" -> <<"C","l","i","e","n","t","e">>
      [] k = "cliente" -> <<"c","l","i","e","n","t","e">>
      [] k = "Cod_Segmento_Cliente" -> <<"C","o","d","_","S","e","g","m","e","n","t","o","_","C","l","i","e","n","t","e">>
      [] k = "segmento" -> <<"s","e","g","m","e","n","t","o">>
      [] k = "Cod_Familia_Produto" -> <<"C","o","d","_","F","a","m","i","l","i","a","_","P","r","o","d","u","t","o">>
      [] k = "Cod_Grupo_Produto" -> <<"C","o","d","_","G","r","u","p","o","_","P","r","o","d","u","t","o">>
      [] k = "Cod_Linha_Produto" -> <<"C","o","d","_","L","i","n","h","a","_","P","r","o","d","u","t","o">>
      [] k = "Des_Linha_Produto" -> <<"D","e","s","_","L","i","n","h","a","_","P","r","o","d","u","t","o">>
      [] k = "Produto" -> <<"P","r","o","d","u","t","o">>
      [] k = "produto" -> <<"p","r","o","d","u","t","o">>
      [] k = "linha" -> <<"l","i","n","h","a">>
      [] k = "Cod_Vendedor" -> <<"C","o","d","_","V","e","n","d","e","d","o","r">>
      [] k = "Cod_Regiao_Vendedor" -> <<"C","o","d","_","R","e","g","i","a","o","_","V","e","n","d","e","d","o","r">>
      [] k = "vendedor" -> <<"v","e","n","d","e","d","o","r">>
      [] k = "representante" -> <<"r","e","p","r","e","s","e","n","t","a","n","t","e">>
      [] k = "regiao_vendedor" -> <<"r","e","g","i","a","o","_","v","e","n","d","e","d","o","r">>
      [] k = "clear_all_filters" -> <<"c","l","e","a","r","_","a","l","l","_","f","i","l","t","e","r","s">>
      [] k = "limpar_filtros" -> <<"l","i","m","p","a","r","_","f","i","l","t","r","o","s">>
      [] k = "remover_filtros" -> <<"r","e","m","o","v","e","r","_","f","i","l","t","r","o","s">>
      [] k = "_filter_mode" -> <<"_","f","i","l","t","e","r","_","m","o","d","e">>
      [] k = "valor" -> <<"v","a","l","o","r">>
      [] k = "data" -> <<"d","a","t","a">>
      [] k = "uf_cliente" -> <<"u","f","_","c","l","i","e","n","t","e">>
      [] k = "municipio_cliente" -> <<"m","u","n","i","c","i","p","i","o","_","c","l","i","e","n","t","e">>
      [] k = "cod_cliente" -> <<"c","o","d","_","c","l","i","e","n","t","e">>
      [] k = "data_>=" -> <<"d","a","t","a","_",">","=">>
      [] k = "data_<" -> <<"d","a","t","a","_","<">>

\* the key spelled s
KeyOf(s) == CHOOSE k \in AllKeys : KeyText(k) = s
IsKeyText(s) == \E k \in AllKeys : KeyText(k) = s

RECURSIVE PyStr(_)
\* str(x), as an f-string renders a value
PyStr(x) ==
    LET RECURSIVE join(_)
        \* ', '.join(repr(e) for e in l)
        join(l) ==
            IF l = <<>> THEN <<>>
            ELSE (IF l[1].t = "str" THEN <<"'">> \o l[1].v \o <<"'">> ELSE PyStr(l[1]))
                 \o (IF Len(l) > 1 THEN <<",", " ">> ELSE <<>>) \o join(Tail(l))
    IN CASE x.t = "null" -> <<"N","o","n","e">>
         [] x.t = "bool" -> IF Truthy(x) THEN <<"T","r","u","e">> ELSE <<"F","a","l","s","e">>
         [] x.t = "str" -> x.v
         [] OTHER -> <<"[">> \o join(x.v) \o <<"]">>

----------------------------------------------------------------------------
(* FilterConflictResolver *)

\* self.conflict_groups, in the order the dict is iterated
conflict_groups ==
    << [name |-> "temporal",
        fields |-> <<"Data", "Data_>=", "Data_<", "Data_<=", "Data_>",
                     "ano", "mes", "periodo", "Data_Inicio", "Data_Fim">>],
       [name |-> "geographic",
        fields |-> <<"UF_Cliente", "Municipio_Cliente", "cidade", "estado",
                     "municipio", "uf", "regiao">>],
       [name |-> "client",
        fields |-> <<"Cod_Cliente", "Cliente", "cliente",
                     "Cod_Segmento_Cliente", "segmento">>],
       [name |-> "product",
        fields |-> <<"Cod_Familia_Produto", "Cod_Grupo_Produto", "Cod_Linha_Produto",
                     "Des_Linha_Produto", "Produto", "produto", "linha">>],
       [name |-> "representative",
        fields |-> <<"Cod_Vendedor", "Cod_Regiao_Vendedor", "vendedor",
                     "representante", "regiao_vendedor">>] >>

\* self.field_priorities.get(f, 5)
field_priorities(f) ==
    CASE f \in {"Data_>=", "Data_<", "Data_<="} -> 10
      [] f = "Data" -> 8
      [] f = "periodo" -> 7
      [] f = "ano" -> 5
      [] f = "mes" -> 6
      [] f = "UF_Cliente" -> 10
      [] f = "Municipio_Cliente" -> 9
      [] f \in {"estado", "cidade"} -> 8
      [] f \in {"uf", "municipio"} -> 7
      [] f = "Cod_Cliente" -> 10
      [] f = "Cod_Segmento_Cliente" -> 9
      [] f = "Cliente" -> 8
      [] f = "cliente" -> 7
      [] f = "Cod_Linha_Produto" -> 10
      [] f = "Des_Linha_Produto" -> 9
      [] f \in {"Cod_Familia_Produto", "Cod_Grupo_Produto"} -> 8
      [] f = "Produto" -> 7
      [] f = "produto" -> 6
      [] f = "Cod_Vendedor" -> 10
      [] f = "Cod_Regiao_Vendedor" -> 9
      [] f = "vendedor" -> 8
      [] f = "representante" -> 7
      [] OTHER -> 5

_are_semantically_conflicting(field1, field2, group_fields) ==
    LET all_exclusives ==
            << <<"Data_>=", "ano">>, <<"Data_<", "ano">>, <<"Data", "periodo">>,
               <<"mes", "Data_>=">>, <<"mes", "Data_<">>,
               <<"UF_Cliente", "Municipio_Cliente">>, <<"estado", "cidade">> >>
    IN \E p \in DOMAIN all_exclusives :
          /\ InSeq(field1, all_exclusives[p])
          /\ InSeq(field2, all_exclusives[p])
          /\ field1 # field2
          /\ \A q \in 1..2 : InSeq(all_exclusives[p][q], group_fields)

\* The conflicts of one group, in the order the code appends them: the direct
\* ones (same field, another value), then the semantic ones.
_detect_group_conflicts(new_filters, existing_context, fields) ==
    LET nf == Restrict(new_filters, fields)
        ef == Restrict(existing_context, fields)
        direct == SelectSeq(nf, LAMBDA e : Has(ef, e.k) /\ e.v # Get(ef, e.k))
        pairs == [n \in 1..(Len(nf) * Len(ef)) |->
                    [new |-> nf[((n - 1) \div Len(ef)) + 1].k,
                     old |-> ef[((n - 1) % Len(ef)) + 1].k]]
        semantic == SelectSeq(pairs, LAMBDA p :
                        p.new # p.old /\ _are_semantically_conflicting(p.new, p.old, fields))
    IN IF nf = <<>> \/ ef = <<>>
       THEN <<>>
       ELSE [i \in DOMAIN direct |-> [kind |-> "direct", new |-> direct[i].k, old |-> direct[i].k]]
            \o [i \in DOMAIN semantic |-> [kind |-> "semantic", new |-> semantic[i].new, old |-> semantic[i].old]]

_resolve_by_priority(new_fields, existing_fields) ==
    LET RECURSIVE inner(_, _, _)
        \* for existing_field in existing_fields, from the j-th on
        inner(item, j, st) ==
            IF j > Len(existing_fields) THEN st
            ELSE LET existing_field == existing_fields[j].k
                     new_priority == field_priorities(item.k)
                     existing_priority == field_priorities(existing_field)
                 IN inner(item, j + 1,
                        IF new_priority > existing_priority
                        THEN [resolved |-> Put(Pop(st.resolved, existing_field), item.k, item.v),
                              conflict_found |-> TRUE]
                        ELSE IF new_priority < existing_priority
                        THEN [st EXCEPT !.conflict_found = TRUE]
                        ELSE st)
        RECURSIVE outer(_, _)
        \* for field, value in new_fields.items(), from the i-th on
        outer(i, resolved) ==
            IF i > Len(new_fields) THEN resolved
            ELSE LET st == inner(new_fields[i], 1, [resolved |-> resolved, conflict_found |-> FALSE])
                 IN outer(i + 1,
                        IF ~st.conflict_found
                        THEN Put(st.resolved, new_fields[i].k, new_fields[i].v)
                        ELSE st.resolved)
    IN outer(1, existing_fields)

_resolve_temporal_conflicts(new_fields, existing_fields) ==
    LET range == {"Data_>=", "Data_<", "Data_<="}
    IN IF \E f \in range : Has(new_fields, f) THEN new_fields
       ELSE IF \E f \in range : Has(existing_fields, f) THEN existing_fields
       ELSE IF Has(new_fields, "Data") THEN new_fields
       ELSE _resolve_by_priority(new_fields, existing_fields)

_resolve_geographic_conflicts(new_fields, existing_fields) ==
    IF Has(new_fields, "Municipio_Cliente") \/ Has(new_fields, "cidade")
    THEN new_fields
    ELSE IF /\ Has(new_fields, "UF_Cliente") \/ Has(new_fields, "estado")
            /\ ~(Has(existing_fields, "Municipio_Cliente") \/ Has(existing_fields, "cidade"))
    THEN Update(existing_fields, new_fields)
    ELSE _resolve_by_priority(new_fields, existing_fields)

_smart_conflict_resolution(new_filters, existing_context, fields, group_name) ==
    LET new_fields_in_group == Restrict(new_filters, fields)
        existing_fields_in_group == Restrict(existing_context, fields)
    IN IF group_name = "temporal"
       THEN _resolve_temporal_conflicts(new_fields_in_group, existing_fields_in_group)
       ELSE IF group_name = "geographic"
       THEN _resolve_geographic_conflicts(new_fields_in_group, existing_fields_in_group)
       ELSE _resolve_by_priority(new_fields_in_group, existing_fields_in_group)

_replace_resolution(new_filters, existing_context, fields) ==
    LET new_fields_in_group == Restrict(new_filters, fields)
    IN IF new_fields_in_group # <<>> THEN new_fields_in_group ELSE existing_context

_merge_resolution(new_filters, existing_context, fields) ==
    LET new_fields_in_group == Restrict(new_filters, fields)
        resolved == Restrict(existing_context, fields)
    IN resolved \o SelectSeq(new_fields_in_group, LAMBDA e : ~Has(resolved, e.k))

_keep_existing_resolution(new_filters, existing_context, fields) ==
    Restrict(existing_context, fields)

_get_ungrouped_fields(filters) ==
    SelectSeq(filters, LAMBDA e :
        /\ \A g \in DOMAIN conflict_groups : ~InSeq(e.k, conflict_groups[g].fields)
        /\ ~StartsWith(KeyText(e.k), <<"_">>))

\* a resolution that starts from the candidates instead of a copy of the context
resolve_from_candidates(new_filters, existing_context, resolution_strategy) == [ctx |-> new_filters, conflicts |-> <<>>]

\* (resolved_context, conflicts_detected)
resolve_conflicts(new_filters, existing_context, resolution_strategy) ==
    LET RECURSIVE groups(_, _)
        \* for group_name, fields in self.conflict_groups.items(), from the g-th on
        groups(g, acc) ==
            IF g > Len(conflict_groups) THEN acc
            ELSE LET fields == conflict_groups[g].fields
                     group_name == conflict_groups[g].name
                     group_conflicts == _detect_group_conflicts(new_filters, existing_context, fields)
                     resolved_filters ==
                        CASE resolution_strategy = "replace" ->
                                _replace_resolution(new_filters, existing_context, fields)
                          [] resolution_strategy = "merge" ->
                                _merge_resolution(new_filters, existing_context, fields)
                          [] resolution_strategy = "keep_existing" ->
                                _keep_existing_resolution(new_filters, existing_context, fields)
                          [] OTHER ->
                                _smart_conflict_resolution(new_filters, existing_context, fields, group_name)
                     no_conflict == SelectSeq([i \in DOMAIN fields |->
                                        Item(fields[i], GetOrNull(new_filters, fields[i]))],
                                        LAMBDA e : Has(new_filters, e.k))
                 IN groups(g + 1,
                        IF group_conflicts # <<>>
                        THEN [ctx |-> Update(acc.ctx, resolved_filters),
                              conflicts |-> acc.conflicts \o
                                  [i \in DOMAIN group_conflicts |->
                                      [group |-> group_name, c |-> group_conflicts[i]]]]
                        ELSE [acc EXCEPT !.ctx = Update(acc.ctx, no_conflict)])
    IN IF new_filters = <<>>
       THEN [ctx |-> existing_context, conflicts |-> <<>>]
       ELSE IF Truthy(GetOrNull(new_filters, "clear_all_filters"))
       THEN [ctx |-> EmptyDict, conflicts |-> <<"Todos os filtros foram limpos">>]
       ELSE LET grouped == groups(1, [ctx |-> existing_context, conflicts |-> <<>>])
            IN [ctx |-> Update(grouped.ctx, _get_ungrouped_fields(new_filters)),
                conflicts |-> grouped.conflicts]

----------------------------------------------------------------------------
(* Regular expressions of the detector, over character sequences *)

Digits == {"0", "1", "2", "3", "4", "5", "6", "7", "8", "9"}
Letters ==
    {"a", "b", "c", "d", "e", "f", "g", "h", "i", "j", "k", "l", "m", "n", "o", "p", "q",
     "r", "s", "t", "u", "v", "w", "x", "y", "z", "á", "ç", "ã", "ú", "ê", "õ", "í",
     "A", "B", "C", "D", "E", "F", "G", "H", "I", "J", "K", "L", "M", "N", "O", "P", "Q",
     "R", "S", "T", "U", "V", "W", "X", "Y", "Z", "Á", "Ç", "Ã", "Ú", "Ê", "Õ", "Í"}
\* \w and \s
WordChars == Letters \cup Digits \cup {"_"}
Spaces == {" "}
\* every character a text is written with
Alphabet == WordChars \cup Spaces \cup {",", ".", "-", ":", "'", "?"}

\* A pattern is a sequence of atoms: one character of a class, an optional
\* sub-pattern (x)?, or a class repeated one or more times [..]+.
Lit(str) == [i \in DOMAIN str |-> [kind |-> "chr", set |-> {str[i]}, sub |-> <<>>]]
Cls(set) == << [kind |-> "chr", set |-> set, sub |-> <<>>] >>
Opt(sub) == << [kind |-> "opt", set |-> {}, sub |-> sub] >>
Plus(set) == << [kind |-> "plus", set |-> set, sub |-> <<>>] >>

\* the value of the one element of a set
Only(S) == CHOOSE x \in S : TRUE

RECURSIVE Ends(_, _, _)
\* the positions where a match of the atom a that starts at a position of P can end
Step(s, P, a) ==
    CASE a.kind = "chr" ->
            {q + 1 : q \in {p \in P : p <= Len(s) /\ s[p] \in a.set}}
      [] a.kind = "plus" ->
            {e \in 2..(Len(s) + 1) :
                \E p \in P : p < e /\ \A i \in p..(e - 1) : s[i] \in a.set}
      [] OTHER -> P \cup Ends(s, P, a.sub)
\* the positions where a match of pat that starts at a position of P can end
Ends(s, P, pat) ==
    IF pat = <<>> \/ P = {} THEN P
    ELSE Only({Ends(s, P1, Tail(pat)) : P1 \in {Step(s, P, Head(pat))}})

\* re.search(p1|p2|..., s) finds a match
Search(alts, s) == \E a \in DOMAIN alts : Ends(s, 1..(Len(s) + 1), alts[a]) # {}

Min(S) == CHOOSE x \in S : \A y \in S : x <= y
Max(S) == CHOOSE x \in S : \A y \in S : y <= x

\* int(s) of a string of digits, and str(n)
DigitVal(c) ==
    CASE c = "0" -> 0 [] c = "1" -> 1 [] c = "2" -> 2 [] c = "3" -> 3 [] c = "4" -> 4
      [] c = "5" -> 5 [] c = "6" -> 6 [] c = "7" -> 7 [] c = "8" -> 8 [] c = "9" -> 9
DigitChr(n) ==
    CASE n = 0 -> "0" [] n = 1 -> "1" [] n = 2 -> "2" [] n = 3 -> "3" [] n = 4 -> "4"
      [] n = 5 -> "5" [] n = 6 -> "6" [] n = 7 -> "7" [] n = 8 -> "8" [] n = 9 -> "9"
RECURSIVE ParseInt(_)
ParseInt(s) == IF s = <<>> THEN 0 ELSE 10 * ParseInt(SubSeq(s, 1, Len(s) - 1)) + DigitVal(s[Len(s)])
RECURSIVE IntStr(_)
IntStr(n) == IF n < 10 THEN <<DigitChr(n)>> ELSE Append(IntStr(n \div 10), DigitChr(n % 10))
RECURSIVE zfill(_, _)
\* s.zfill(w)
zfill(s, w) == IF Len(s) >= w THEN s ELSE zfill(<<"0">> \o s, w)

\* datetime: [y, m, d]
IsLeap(y) == (y % 4 = 0 /\ y % 100 # 0) \/ y % 400 = 0
DaysInMonth(y, m) ==
    CASE m \in {4, 6, 9, 11} -> 30
      [] m = 2 -> IF IsLeap(y) THEN 29 ELSE 28
      [] OTHER -> 31
RECURSIVE MinusDays(_, _)
\* date - timedelta(days=n)
MinusDays(date, n) ==
    IF n < date.d THEN [date EXCEPT !.d = date.d - n]
    ELSE LET py == IF date.m = 1 THEN date.y - 1 ELSE date.y
             pm == IF date.m = 1 THEN 12 ELSE date.m - 1
         IN MinusDays([y |-> py, m |-> pm, d |-> DaysInMonth(py, pm)], n - date.d)
\* max_date = None
NoMaxDate == [y |-> 0, m |-> 0, d |-> 0]
\* date.strftime('%Y-%m-%d')
strftime(date) ==
    zfill(IntStr(date.y), 4) \o <<"-">> \o zfill(IntStr(date.m), 2) \o <<"-">> \o zfill(IntStr(date.d), 2)

\* s.title(): a letter that follows a letter is lowered, any other letter is raised
Title(s) ==
    [i \in DOMAIN s |->
        IF i > 1 /\ s[i - 1] \in Letters THEN LowerChar(s[i]) ELSE UpperChar(s[i])]

\* the first match of pat in s starts here (0 when there is none)
FirstStart(s, pat) ==
    LET first(starts) == IF starts = {} THEN 0 ELSE Min(starts)
    IN first({i \in 1..(Len(s) + 1) : Ends(s, {i}, pat) # {}})

\* group(1) of the first match of  pre ([cls]+) ...  in s: the longest run of cls after pre
Group(s, pat, pre, cls) ==
    LET run(e) == SubSeq(s, e, Max(Ends(s, {e}, Plus(cls))) - 1)
    IN run(Max(Ends(s, {FirstStart(s, pat)}, pre)))

----------------------------------------------------------------------------
(* IntelligentFilterDetector, built with no alias mapping and no normalizer *)

last_n_months_pattern ==
    Lit(<<"ú","l","t","i","m","o">>) \o Opt(Lit(<<"s">>)) \o Plus(Spaces) \o Plus(Digits) \o Plus(Spaces)
        \o Lit(<<"m","e","s","e">>) \o Opt(Lit(<<"s">>))
last_n_years_pattern ==
    Lit(<<"ú","l","t","i","m","o">>) \o Opt(Lit(<<"s">>)) \o Plus(Spaces) \o Plus(Digits) \o Plus(Spaces)
        \o Lit(<<"a","n","o">>) \o Opt(Lit(<<"s">>))

\* self.temporal_patterns, in the order the dict is iterated
temporal_patterns ==
    << [alts |-> <<Lit(<<"j","a","n","e","i","r","o">>), Lit(<<"j","a","n">>)>>, value |-> <<"0","1">>],
       [alts |-> <<Lit(<<"f","e","v","e","r","e","i","r","o">>), Lit(<<"f","e","v">>)>>, value |-> <<"0","2">>],
       [alts |-> <<Lit(<<"m","a","r","ç","o">>), Lit(<<"m","a","r">>)>>, value |-> <<"0","3">>],
       [alts |-> <<Lit(<<"a","b","r","i","l">>), Lit(<<"a","b","r">>)>>, value |-> <<"0","4">>],
       [alts |-> <<Lit(<<"m","a","i","o">>), Lit(<<"m","a","i">>)>>, value |-> <<"0","5">>],
       [alts |-> <<Lit(<<"j","u","n","h","o">>), Lit(<<"j","u","n">>)>>, value |-> <<"0","6">>],
       [alts |-> <<Lit(<<"j","u","l","h","o">>), Lit(<<"j","u","l">>)>>, value |-> <<"0","7">>],
       [alts |-> <<Lit(<<"a","g","o","s","t","o">>), Lit(<<"a","g","o">>)>>, value |-> <<"0","8">>],
       [alts |-> <<Lit(<<"s","e","t","e","m","b","r","o">>), Lit(<<"s","e","t">>)>>, value |-> <<"0","9">>],
       [alts |-> <<Lit(<<"o","u","t","u","b","r","o">>), Lit(<<"o","u","t">>)>>, value |-> <<"1","0">>],
       [alts |-> <<Lit(<<"n","o","v","e","m","b","r","o">>), Lit(<<"n","o","v">>)>>, value |-> <<"1","1">>],
       [alts |-> <<Lit(<<"d","e","z","e","m","b","r","o">>), Lit(<<"d","e","z">>)>>, value |-> <<"1","2">>],
       [alts |-> <<Lit(<<"ú","l","t","i","m","o">>) \o Plus(Spaces) \o Lit(<<"m","ê","s">>),
                   Lit(<<"m","ê","s">>) \o Plus(Spaces) \o Lit(<<"p","a","s","s","a","d","o">>),
                   Lit(<<"m","ê","s">>) \o Plus(Spaces) \o Lit(<<"a","n","t","e","r","i","o","r">>)>>, value |-> <<"l","a","s","t","_","m","o","n","t","h">>],
       [alts |-> <<last_n_months_pattern>>, value |-> <<"l","a","s","t","_","n","_","m","o","n","t","h","s">>],
       [alts |-> <<Lit(<<"ú","l","t","i","m","o">>) \o Plus(Spaces) \o Lit(<<"a","n","o">>),
                   Lit(<<"a","n","o">>) \o Plus(Spaces) \o Lit(<<"p","a","s","s","a","d","o">>)>>, value |-> <<"l","a","s","t","_","y","e","a","r">>],
       [alts |-> <<last_n_years_pattern>>, value |-> <<"l","a","s","t","_","n","_","y","e","a","r","s">>],
       [alts |-> <<Lit(<<"e","s","t","e">>) \o Plus(Spaces) \o Lit(<<"m","ê","s">>),
                   Lit(<<"m","ê","s">>) \o Plus(Spaces) \o Lit(<<"a","t","u","a","l">>)>>, value |-> <<"t","h","i","s","_","m","o","n","t","h">>],
       [alts |-> <<Lit(<<"e","s","t","e">>) \o Plus(Spaces) \o Lit(<<"a","n","o">>),
                   Lit(<<"a","n","o">>) \o Plus(Spaces) \o Lit(<<"a","t","u","a","l">>)>>, value |-> <<"t","h","i","s","_","y","e","a","r">>] >>

\* x\.?y\.?
Abbrev(x, y) == Lit(<<x>>) \o Opt(Lit(<<".">>)) \o Lit(<<y>>) \o Opt(Lit(<<".">>))
NotCommaSpace == Alphabet \ ({","} \cup Spaces)
cidade_de == Lit(<<"c","i","d","a","d","e">>) \o Plus(Spaces) \o Lit(<<"d","e">>) \o Plus(Spaces)
municipio_de == Lit(<<"m","u","n","i","c","í","p","i","o">>) \o Plus(Spaces) \o Lit(<<"d","e">>) \o Plus(Spaces)

\* self.geographic_patterns, in the order the dict is iterated
geographic_patterns ==
    << [alts |-> <<Lit(<<"s","ã","o">>) \o Plus(Spaces) \o Lit(<<"p","a","u","l","o">>), Lit(<<"s","p">>), Abbrev("s", "p")>>,
        value |-> <<"S","P">>, pre |-> <<>>],
       [alts |-> <<Lit(<<"r","i","o">>) \o Plus(Spaces) \o Lit(<<"d","e">>) \o Plus(Spaces) \o Lit(<<"j","a","n","e","i","r","o">>),
                   Lit(<<"r","j">>), Abbrev("r", "j")>>,
        value |-> <<"R","J">>, pre |-> <<>>],
       [alts |-> <<Lit(<<"m","i","n","a","s">>) \o Plus(Spaces) \o Lit(<<"g","e","r","a","i","s">>), Lit(<<"m","g">>), Abbrev("m", "g")>>,
        value |-> <<"M","G">>, pre |-> <<>>],
       [alts |-> <<Lit(<<"p","a","r","a">>) \o Cls({"í", "i"}) \o Lit(<<"b","a">>), Lit(<<"p","b">>), Abbrev("p", "b")>>,
        value |-> <<"P","B">>, pre |-> <<>>],
       [alts |-> <<Lit(<<"p","e","r","n","a","m","b","u","c","o">>), Lit(<<"p","e">>), Abbrev("p", "e")>>,
        value |-> <<"P","E">>, pre |-> <<>>],
       [alts |-> <<Lit(<<"b","a","h","i","a">>), Lit(<<"b","a">>), Abbrev("b", "a")>>,
        value |-> <<"B","A">>, pre |-> <<>>],
       [alts |-> <<Lit(<<"b","r","a","s","í","l","i","a">>), Lit(<<"d","f">>), Abbrev("d", "f")>>,
        value |-> <<"D","F">>, pre |-> <<>>],
       [alts |-> <<cidade_de \o Plus(NotCommaSpace)>>, value |-> <<"c","i","d","a","d","e">>, pre |-> cidade_de],
       [alts |-> <<municipio_de \o Plus(NotCommaSpace)>>, value |-> <<"c","i","d","a","d","e">>, pre |-> municipio_de] >>

\* self.exclusion_patterns, in the order the dict is iterated
exclusion_patterns ==
    << [alts |-> <<Lit(<<"e","x","c","l","u","i","r">>), Lit(<<"e","x","c","e","t","o">>), Lit(<<"s","e","m">>),
                   Lit(<<"n","ã","o">>) \o Plus(Spaces) \o Lit(<<"i","n","c","l","u","i","r">>), Lit(<<"r","e","m","o","v","e","r">>)>>,
        value |-> <<"e","x","c","l","u","d","e">>],
       [alts |-> <<Lit(<<"a","p","e","n","a","s">>), Lit(<<"s","o","m","e","n","t","e">>), Lit(<<"s","ó">>),
                   Lit(<<"i","n","c","l","u","i","r">>) \o Plus(Spaces) \o Lit(<<"a","p","e","n","a","s">>)>>,
        value |-> <<"i","n","c","l","u","d","e","_","o","n","l","y">>],
       [alts |-> <<Lit(<<"t","o","d","o">>) \o Opt(Lit(<<"s">>)) \o Plus(Spaces) \o Lit(<<"e","x","c","e","t","o">>)>>,
        value |-> <<"a","l","l","_","e","x","c","e","p","t">>] >>

\* self.clear_patterns
clear_patterns ==
    << Lit(<<"s","e","m">>) \o Plus(Spaces) \o Lit(<<"f","i","l","t","r","o">>) \o Opt(Lit(<<"s">>)),
       Lit(<<"r","e","m","o","v","e">>) \o Opt(Lit(<<"r">>)) \o Plus(Spaces)
           \o Opt(Lit(<<"t","o","d","o">>) \o Opt(Lit(<<"s">>)) \o Plus(Spaces))
           \o Lit(<<"f","i","l","t","r","o">>) \o Opt(Lit(<<"s">>)),
       Lit(<<"l","i","m","p","a","r">>) \o Plus(Spaces) \o Lit(<<"f","i","l","t","r","o">>) \o Opt(Lit(<<"s">>)),
       Lit(<<"s","e","m">>) \o Plus(Spaces) \o Lit(<<"r","e","s","t","r","i","ç","õ","e">>) \o Opt(Lit(<<"s">>)),
       Lit(<<"c","o","n","s","u","l","t","a">>) \o Plus(Spaces) \o Lit(<<"g","e","r","a","l">>),
       Lit(<<"t","o","d","o">>) \o Opt(Lit(<<"s">>)) \o Plus(Spaces) \o Lit(<<"o">>) \o Opt(Lit(<<"s">>))
           \o Plus(Spaces) \o Lit(<<"d","a","d","o">>) \o Opt(Lit(<<"s">>)) >>

_is_clear_filters_command(text) == Search(clear_patterns, text)

\* the index of the first entry of a pattern table that matches text (0 when none does)
FirstPattern(table, text) ==
    LET first(hits) == IF hits = {} THEN 0 ELSE Min(hits)
    IN first({n \in DOMAIN table : Search(table[n].alts, text)})

isdigit(s) == s # <<>> /\ \A i \in DOMAIN s : s[i] \in Digits

_detect_temporal_filters(text, max_date) ==
    LET \* if max_date is None: max_date = datetime.now()
        date == IF max_date = NoMaxDate THEN r_now ELSE max_date
        january(year) == Str(year \o <<"-","0","1","-","0","1">>)
        \* re.findall(r'\b(20\d{2})\b', text)
        year_matches ==
            {i \in 1..(Len(text) - 3) :
                /\ text[i] = "2" /\ text[i + 1] = "0"
                /\ text[i + 2] \in Digits /\ text[i + 3] \in Digits
                /\ (i = 1 \/ text[i - 1] \notin WordChars)
                /\ (i + 4 > Len(text) \/ text[i + 4] \notin WordChars)}
        of_year(year) ==
            << Item("Data_>=", january(year)), Item("Data_<", january(IntStr(ParseInt(year) + 1))) >>
        with_year(matches) ==
            IF matches # {} THEN of_year(SubSeq(text, Min(matches), Min(matches) + 3))
            ELSE EmptyDict
        \* re.search(r'(\w+)\s+de\s+(20\d{2})', text)
        month_year ==
            Plus(WordChars) \o Plus(Spaces) \o Lit(<<"d","e">>) \o Plus(Spaces)
                \o Lit(<<"2","0">>) \o Cls(Digits) \o Cls(Digits)
        of_month(filters, year, month_num, next_month) ==
            Put(Put(filters,
                "Data_>=", Str(year \o <<"-">> \o zfill(month_num, 2) \o <<"-","0","1">>)),
                "Data_<", IF next_month > 12
                          THEN january(IntStr(ParseInt(year) + 1))
                          ELSE Str(year \o <<"-">> \o zfill(IntStr(next_month), 2) \o <<"-","0","1">>))
        \* n: the first entry of temporal_patterns the month name matches
        of_month_name(filters, year, n) ==
            IF n # 0 /\ isdigit(temporal_patterns[n].value)
            THEN of_month(filters, year, temporal_patterns[n].value,
                          ParseInt(temporal_patterns[n].value) + 1)
            ELSE filters
        of_match(filters, year_end) ==
            of_month_name(filters, SubSeq(text, year_end - 4, year_end - 1),
                FirstPattern(temporal_patterns, Lower(Group(text, month_year, <<>>, WordChars))))
        with_month(filters, start) ==
            IF start # 0 THEN of_match(filters, Min(Ends(text, {start}, month_year)))
            ELSE filters
        ultimos == Lit(<<"ú","l","t","i","m","o">>) \o Opt(Lit(<<"s">>)) \o Plus(Spaces)
        relative(filters, action) ==
            CASE action = <<"l","a","s","t","_","m","o","n","t","h">> ->
                    Put(Put(filters,
                        "Data_>=", Str(strftime([MinusDays([date EXCEPT !.d = 1], 1) EXCEPT !.d = 1]))),
                        "Data_<", Str(strftime([date EXCEPT !.d = 1])))
              [] action = <<"t","h","i","s","_","m","o","n","t","h">> ->
                    Put(filters, "Data_>=", Str(strftime([date EXCEPT !.d = 1])))
              [] action = <<"l","a","s","t","_","y","e","a","r">> ->
                    Put(Put(filters,
                        "Data_>=", january(IntStr(date.y - 1))),
                        "Data_<", january(IntStr(date.y)))
              [] action = <<"t","h","i","s","_","y","e","a","r">> ->
                    Put(filters, "Data_>=", january(IntStr(date.y)))
              [] action = <<"l","a","s","t","_","n","_","m","o","n","t","h","s">> ->
                    Put(filters, "Data_>=", Str(strftime(MinusDays(date,
                        30 * ParseInt(Group(text, last_n_months_pattern, ultimos, Digits))))))
              [] action = <<"l","a","s","t","_","n","_","y","e","a","r","s">> ->
                    Put(filters, "Data_>=", january(IntStr(date.y
                        - ParseInt(Group(text, last_n_years_pattern, ultimos, Digits)))))
              [] OTHER -> filters
        \* the relative periods: only the first pattern that matches the text is looked at
        with_relative(filters, r) ==
            IF r = 0 THEN filters ELSE relative(filters, temporal_patterns[r].value)
    IN with_relative(with_month(with_year(year_matches), FirstStart(text, month_year)),
                     FirstPattern(temporal_patterns, text))

_detect_geographic_filters(text) ==
    LET city(city_name) ==
            IF city_name # <<>>
            THEN <<Item("Municipio_Cliente", Str(Title(city_name)))>>
            ELSE EmptyDict
        of_pattern(pattern) ==
            IF pattern.value = <<"c","i","d","a","d","e">>
            THEN city(Group(text, pattern.alts[1], pattern.pre, NotCommaSpace))
            ELSE <<Item("UF_Cliente", Str(pattern.value))>>
        detected(n) == IF n = 0 THEN EmptyDict ELSE of_pattern(geographic_patterns[n])
    IN detected(FirstPattern(geographic_patterns, text))

\* Optional[str]
_detect_exclusion_patterns(text) ==
    LET found(n) == IF n = 0 THEN Null ELSE Str(exclusion_patterns[n].value)
    IN found(FirstPattern(exclusion_patterns, text))

detect_filters_from_text(text, max_date) ==
    LET with_mode(detected_filters, exclusion_context) ==
            IF Truthy(exclusion_context)
            THEN Put(detected_filters, "_filter_mode", exclusion_context)
            ELSE detected_filters
        \* no alias is configured: _detect_alias_filters returns {}
        detect(text_lower) ==
            IF _is_clear_filters_command(text_lower)
            THEN <<Item("clear_all_filters", True_)>>
            ELSE with_mode(Update(_detect_temporal_filters(text_lower, max_date),
                                  _detect_geographic_filters(text_lower)),
                           _detect_exclusion_patterns(text_lower))
    IN detect(Lower(text))

----------------------------------------------------------------------------
(* JSONFilterManager *)

\* validar_valores(campo, valores, categoria): valores and the result are lists
\* a validator that accepts every candidate as it is
validar_sem_dataset(valores_validos, campo, valores) == valores

\* a validator that keeps the exact matches of the dataset for every field
validar_todo_campo(valores_validos, campo, valores) ==
    LET validos == IF Has(valores_validos, campo) THEN Get(valores_validos, campo) ELSE <<>>
    IN SelectSeq(valores, LAMBDA v : \E i \in DOMAIN validos : PyStr(validos[i]) = PyStr(v))

validar_valores(valores_validos, campo, valores) ==
    LET campos_permissivos ==
            {"Data", "Data_>=", "Data_<", "periodo", "mes", "ano", "cidade", "estado",
             "municipio", "uf", "cliente", "produto", "linha", "segmento"}
        strs(l) == [i \in DOMAIN l |-> PyStr(l[i])]
        as_values(l) == [i \in DOMAIN l |-> Str(l[i])]
        \* matches[:1] of a candidate
        first_match(matches) == IF matches # <<>> THEN <<matches[1]>> ELSE <<>>
        fuzzy_of(valor, validos_str) ==
            first_match(SelectSeq(validos_str, LAMBDA v :
                Contains(Upper(v), Upper(valor)) \/ Contains(Upper(valor), Upper(v))))
        RECURSIVE fuzzy(_, _, _)
        fuzzy(i, valores_str, validos_str) ==
            IF i > Len(valores_str) THEN <<>>
            ELSE fuzzy_of(valores_str[i], validos_str) \o fuzzy(i + 1, valores_str, validos_str)
        choose(valores_str, valores_exatos, valores_fuzzy) ==
            IF valores_exatos = <<>> /\ valores_str # <<>> /\ valores_fuzzy # <<>>
            THEN as_values(valores_fuzzy)
            ELSE as_values(valores_exatos)
        validate(valores_str, validos_str) ==
            choose(valores_str, SelectSeq(valores_str, LAMBDA v : InSeq(v, validos_str)),
                   fuzzy(1, valores_str, validos_str))
    IN IF \/ campo \in campos_permissivos
          \/ \E c \in campos_permissivos : Lower(KeyText(campo)) = Lower(KeyText(c))
       THEN valores
       ELSE IF Has(valores_validos, campo)
       THEN validate(strs(valores), strs(Get(valores_validos, campo)))
       ELSE valores

_campo_permite_multiplos_valores(campo) ==
    ~(campo \in {"Data", "Data_>=", "Data_<", "periodo", "mes", "ano"})

\* a merge that appends the new values without looking for duplicates
merge_lista_com_duplicatas(valor_existente, novo_valor) ==
    List((IF Truthy(valor_existente)
          THEN IF valor_existente.t = "list" THEN valor_existente.v ELSE <<valor_existente>>
          ELSE <<>>)
         \o (IF novo_valor.t = "list" THEN novo_valor.v ELSE <<novo_valor>>))

_merge_lista_valores(valor_existente, novo_valor) ==
    LET existente_lista ==
            IF Truthy(valor_existente)
            THEN IF valor_existente.t = "list" THEN valor_existente.v ELSE <<valor_existente>>
            ELSE <<>>
        novo_lista == IF novo_valor.t = "list" THEN novo_valor.v ELSE <<novo_valor>>
        RECURSIVE merge(_, _)
        merge(resultado, i) ==
            IF i > Len(novo_lista) THEN resultado
            ELSE merge(IF InSeq(novo_lista[i], resultado) THEN resultado
                       ELSE Append(resultado, novo_lista[i]), i + 1)
        resultado == merge(existente_lista, 1)
    IN IF Len(resultado) = 1 THEN resultado[1] ELSE List(resultado)

\* the date fields given directly; the structured forms (inicio/fim, mes/ano) go
\* through the text normalizer and are not among the structures considered
_processar_periodo_estruturado(campos, st) ==
    LET RECURSIVE direct(_, _)
        direct(fs, acc) ==
            IF fs = <<>> THEN acc
            ELSE direct(Tail(fs),
                    IF Has(campos, Head(fs)) /\ Truthy(Get(campos, Head(fs)))
                    THEN [ctx |-> Put(acc.ctx, Head(fs), Get(campos, Head(fs))),
                          mudancas |-> Append(acc.mudancas, "+ Data range")]
                    ELSE acc)
    IN IF Has(campos, "Data_>=") \/ Has(campos, "Data_<")
       THEN direct(<<"Data_>=", "Data_<">>, st)
       ELSE IF Has(campos, "Data") /\ Truthy(Get(campos, "Data"))
       THEN [ctx |-> Put(st.ctx, "Data", Get(campos, "Data")),
             mudancas |-> Append(st.mudancas, "+ Data")]
       ELSE st

\* st = [ctx, mudancas]: the context being updated and the changes reported so
\* far (each change by its leading word)
_processar_categoria_com_merge(valores_validos, categoria, campos, st) ==
    LET present(v) == v # Null /\ v # List(<<>>) /\ v # Str(<<>>)
        say(acc, mudancas) == [acc EXCEPT !.mudancas = @ \o mudancas]
        set(acc, campo, valor, mudanca) ==
            [ctx |-> Put(acc.ctx, campo, valor), mudancas |-> Append(acc.mudancas, mudanca)]
        merged(acc, campo, valor_existente, valores_finais) ==
            IF valores_finais # valor_existente
            THEN set(acc, campo, valores_finais, "+ Merged")
            ELSE acc
        \* valores_validos_: what validar_valores left of valor_json
        validated(acc, campo, valor_json, valor_existente, valores_validos_, rejected) ==
            IF ~Truthy(valores_validos_)
            THEN say(acc, (IF rejected /\ Truthy(valor_json) THEN <<"Rejeitado">> ELSE <<>>)
                          \o (IF present(valor_existente)
                              THEN <<"Preservado por fallback">> ELSE <<>>))
            ELSE IF _campo_permite_multiplos_valores(campo)
            THEN merged(acc, campo, valor_existente,
                        _merge_lista_valores(valor_existente, valores_validos_))
            ELSE IF valores_validos_ # valor_existente
            THEN set(acc, campo, valores_validos_,
                     IF Truthy(valor_existente) THEN "* Atualizado" ELSE "+ Adicionado")
            ELSE acc
        \* a single value: the first of the values validated, or the empty list of them
        single(acc, campo, valor_json, valor_existente, valid) ==
            validated(acc, campo, valor_json, valor_existente,
                      IF valid # <<>> THEN valid[1] ELSE List(valid), valid = <<>>)
        field(acc, campo, valor_json, valor_existente) ==
            IF valor_json = Null
            THEN IF present(valor_existente) THEN say(acc, <<"Preservado">>) ELSE acc
            ELSE IF valor_json.t = "list"
            THEN validated(acc, campo, valor_json, valor_existente,
                           List(validar_valores(valores_validos, campo, valor_json.v)), TRUE)
            ELSE single(acc, campo, valor_json, valor_existente,
                        validar_valores(valores_validos, campo, <<valor_json>>))
        RECURSIVE fields(_, _)
        \* for campo, valor_json in campos.items(), from the i-th on
        fields(i, acc) ==
            IF i > Len(campos) THEN acc
            ELSE Only({fields(i + 1, next) :
                    next \in {field(acc, campos[i].k, campos[i].v, GetOrNull(acc.ctx, campos[i].k))}})
    IN IF categoria = "periodo"
       THEN _processar_periodo_estruturado(campos, st)
       ELSE fields(1, st)

\* a removal that deletes no key
remocoes_sem_efeito(remover_filtros, st) == st

_processar_remocoes(remover_filtros, st) ==
    LET RECURSIVE remove(_, _)
        remove(i, acc) ==
            IF i > Len(remover_filtros) THEN acc
            ELSE LET filtro == remover_filtros[i].v
                 IN remove(i + 1,
                        IF IsKeyText(filtro) /\ Has(acc.ctx, KeyOf(filtro))
                        THEN [ctx |-> Pop(acc.ctx, KeyOf(filtro)),
                              mudancas |-> Append(acc.mudancas, "- Removido")]
                        ELSE acc)
    IN remove(1, st)

\* self.filtros_persistentes as __init__ and _limpar_todos_filtros set it
filtros_iniciais ==
    << Item("periodo", Dict(<<Item("Data", Null)>>)),
       Item("regiao", Dict(<<Item("UF_Cliente", List(<<>>)), Item("Municipio_Cliente", List(<<>>))>>)),
       Item("cliente", Dict(<<Item("Cod_Cliente", List(<<>>)),
                              Item("Cod_Segmento_Cliente", List(<<>>))>>)),
       Item("produto", Dict(<<Item("Cod_Familia_Produto", List(<<>>)),
                              Item("Cod_Grupo_Produto", List(<<>>)),
                              Item("Cod_Linha_Produto", List(<<>>)),
                              Item("Des_Linha_Produto", List(<<>>))>>)),
       Item("representante", Dict(<<Item("Cod_Vendedor", List(<<>>)),
                                    Item("Cod_Regiao_Vendedor", List(<<>>))>>)) >>

\* (contexto_atualizado, mudancas) and what filtros_persistentes becomes
_atualizar_filtros_do_json(valores_validos, persistentes, json_filtros, contexto_atual) ==
    LET categorias == {"periodo", "regiao", "cliente", "produto", "representante"}
        RECURSIVE merge(_, _)
        \* for categoria, campos in json_filtros.items(), from the i-th on
        merge(i, acc) ==
            IF i > Len(json_filtros) THEN acc
            ELSE Only({merge(i + 1, next) :
                    next \in {IF json_filtros[i].k \in categorias
                              THEN _processar_categoria_com_merge(valores_validos,
                                        json_filtros[i].k, json_filtros[i].v.v, acc)
                              ELSE acc}})
        remove(merged) ==
            IF Truthy(GetOrNull(json_filtros, "remover_filtros"))
            THEN _processar_remocoes(Get(json_filtros, "remover_filtros").v, merged)
            ELSE merged
        alerta(ctx) ==
            IF /\ contexto_atual # <<>>
               /\ Len(ctx) < Len(contexto_atual)
               /\ Keys(contexto_atual) \ Keys(ctx) # {}
            THEN <<"ALERTA">> ELSE <<>>
        final(updated) ==
            [ctx |-> updated.ctx,
             mudancas |-> updated.mudancas \o alerta(updated.ctx) \o <<"Contexto final">>,
             persistentes |-> persistentes]
    IN IF \/ Truthy(GetOrNull(json_filtros, "clear_all_filters"))
          \/ Truthy(GetOrNull(json_filtros, "limpar_filtros"))
       THEN [ctx |-> EmptyDict, mudancas |-> <<"Todos os filtros foram removidos">>,
             persistentes |-> filtros_iniciais]
       ELSE final(remove(merge(1, [ctx |-> contexto_atual,
                                   mudancas |-> <<"Contexto inicial", "JSON extraído">>])))

\* whether _atualizar_filtros_do_json raises: without a clear instruction,
\* len(campos) raises TypeError for a category whose value is None and
\* campos.items() raises AttributeError for one that is a string or a list
_atualizar_filtros_do_json_raises(json_filtros) ==
    /\ ~Truthy(GetOrNull(json_filtros, "clear_all_filters"))
    /\ ~Truthy(GetOrNull(json_filtros, "limpar_filtros"))
    /\ \E i \in DOMAIN json_filtros :
          /\ json_filtros[i].k \in {"periodo", "regiao", "cliente", "produto", "representante"}
          /\ json_filtros[i].v.t # "dict"

\* processar_json_response for a response whose JSON block is json_filtros
\* (empty when the response carries none: not json_filtros)
processar_json_response(valores_validos, persistentes, json_filtros, contexto_atual) ==
    IF json_filtros = EmptyDict
    THEN [ctx |-> contexto_atual, mudancas |-> <<>>, persistentes |-> persistentes]
    ELSE IF _atualizar_filtros_do_json_raises(json_filtros)
    THEN [ctx |-> contexto_atual, mudancas |-> <<"Erro ao processar JSON">>,
          persistentes |-> persistentes]
    ELSE _atualizar_filtros_do_json(valores_validos, persistentes, json_filtros, contexto_atual)

\* f"Data_range:{start_date}_{end_date}"
RangeId(start_date, end_date) ==
    <<"D","a","t","a","_","r","a","n","g","e",":">> \o PyStr(start_date) \o <<"_">> \o PyStr(end_date)
\* f"{campo}:{valor}"
FilterId(campo, valor) == KeyText(campo) \o <<":">> \o PyStr(valor)

aplicar_filtros_desabilitados(contexto, filtros_desabilitados) ==
    LET start_date == GetOrNull(contexto, "Data_>=")
        end_date == GetOrNull(contexto, "Data_<")
    IN IF filtros_desabilitados = {}
       THEN contexto
       ELSE SelectSeq(contexto, LAMBDA e :
                IF e.k \in {"Data_>=", "Data_<"} /\ Has(contexto, "Data_>=") /\ Has(contexto, "Data_<")
                THEN /\ Truthy(start_date) /\ Truthy(end_date)
                     /\ RangeId(start_date, end_date) \notin filtros_desabilitados
                ELSE FilterId(e.k, e.v) \notin filtros_desabilitados)

----------------------------------------------------------------------------
(* FilterDefinition, FilterState, ContextSynchronizer, UnifiedFilterManager *)

\* A FilterDefinition is [key, value, category, operator, source]; enabled and
\* metadata keep their defaults.  A FilterState is [filters, disabled]: the
\* filters dict by filter_id and the set disabled_filter_ids.

filter_id(f) == FilterId(f.key, f.value)

to_context_pair(f) ==
    IF f.operator # <<"=">>
    THEN Item(KeyOf(KeyText(f.key) \o <<"_">> \o f.operator), f.value)
    ELSE Item(f.key, f.value)

add_filter(state, f) == [state EXCEPT !.filters = Put(@, filter_id(f), f)]

remove_filter(state, id) ==
    IF Has(state.filters, id)
    THEN [filters |-> Pop(state.filters, id), disabled |-> state.disabled \ {id}]
    ELSE state

\* a disable that would drop the stored filter instead of marking it
disable_dropping_filter(state, id) ==
    IF Has(state.filters, id)
    THEN [filters |-> Pop(state.filters, id), disabled |-> state.disabled \cup {id}]
    ELSE state

\* a disable that marks the identifier without looking it up
disable_unstored_filter(state, id) == [state EXCEPT !.disabled = @ \cup {id}]

disable_filter(state, id) ==
    IF Has(state.filters, id)
    THEN [state EXCEPT !.disabled = @ \cup {id}]
    ELSE state

enable_filter(state, id) ==
    IF Has(state.filters, id)
    THEN [state EXCEPT !.disabled = @ \ {id}]
    ELSE state

clear_all_filters == [filters |-> EmptyDict, disabled |-> {}]

toggle_filter(state, id, enabled) ==
    IF enabled THEN enable_filter(state, id) ELSE disable_filter(state, id)

get_active_filters(state) == SelectSeq(state.filters, LAMBDA e : e.k \notin state.disabled)

to_context_dict(state, only_active) ==
    LET filters_to_convert == IF only_active THEN get_active_filters(state) ELSE state.filters
    IN Update(EmptyDict, [i \in DOMAIN filters_to_convert |->
                            to_context_pair(filters_to_convert[i].v)])

\* _dict_to_filter_definitions (skip_control) and _context_to_filters (not
\* skip_control), which differ in the keys skipped and in two category rules
FilterDefinitions(filters_dict, source, skip_control) ==
    LET ops == << <<">","=">>, <<"<","=">>, <<">">>, <<"<">>, <<"!","=">>, <<"L","I","K","E">> >>
        category(clean_key_lower) ==
            IF clean_key_lower \in {<<"d","a","t","a">>, <<"d","a","t","a","_","i","n","i","c","i","o">>, <<"d","a","t","a","_","f","i","m">>,
                                    <<"p","e","r","i","o","d","o">>, <<"m","e","s">>, <<"a","n","o">>}
            THEN "temporal"
            ELSE IF clean_key_lower \in {<<"u","f","_","c","l","i","e","n","t","e">>, <<"m","u","n","i","c","i","p","i","o","_","c","l","i","e","n","t","e">>,
                                         <<"c","i","d","a","d","e">>, <<"e","s","t","a","d","o">>}
            THEN "geographic"
            ELSE IF clean_key_lower \in {<<"c","o","d","_","c","l","i","e","n","t","e">>, <<"c","o","d","_","s","e","g","m","e","n","t","o","_","c","l","i","e","n","t","e">>,
                                         <<"c","l","i","e","n","t","e">>}
            THEN "client"
            ELSE IF \/ Contains(clean_key_lower, <<"p","r","o","d","u","t","o">>)
                    \/ Contains(clean_key_lower, <<"f","a","m","i","l","i","a">>)
                    \/ (~skip_control /\ Contains(clean_key_lower, <<"g","r","u","p","o">>))
            THEN "product"
            ELSE IF \/ Contains(clean_key_lower, <<"v","e","n","d","e","d","o","r">>)
                    \/ (~skip_control /\ Contains(clean_key_lower, <<"r","e","p","r","e","s","e","n","t","a","n","t","e">>))
            THEN "representative"
            ELSE "other"
        definition(value, clean_key, operator) ==
            [key |-> KeyOf(clean_key), value |-> value, category |-> category(Lower(clean_key)),
             operator |-> operator, source |-> source]
        \* found: the operators the key ends with, by their place in ops
        split(value, key, found) ==
            IF found = {} THEN definition(value, key, <<"=">>)
            ELSE definition(value, SubSeq(key, 1, Len(key) - Len(ops[Min(found)]) - 1),
                            ops[Min(found)])
        of_item(e) ==
            split(e.v, KeyText(e.k), {n \in DOMAIN ops : EndsWith(KeyText(e.k), <<"_">> \o ops[n])})
        skipped(e) ==
            skip_control /\ (StartsWith(KeyText(e.k), <<"_">>) \/ e.k = "clear_all_filters")
        definitions(kept) == [i \in DOMAIN kept |-> of_item(kept[i])]
    IN definitions(SelectSeq(filters_dict, LAMBDA e : ~skipped(e)))

\* add_filter for every definition whose id is not stored or is stored with
\* another value
AddNewOrChanged(state, definitions) ==
    LET is_new(st, f, id) == ~Has(st.filters, id) \/ Get(st.filters, id).value # f.value
        RECURSIVE apply(_, _)
        apply(i, st) ==
            IF i > Len(definitions) THEN st
            ELSE Only({apply(i + 1, next) :
                    next \in {IF is_new(st, definitions[i], filter_id(definitions[i]))
                              THEN add_filter(st, definitions[i]) ELSE st}})
    IN apply(1, state)

\* process_user_query without its branch for the clear command
query_without_clear(state, user_query, max_date) ==
    AddNewOrChanged(state,
        FilterDefinitions(detect_filters_from_text(user_query, max_date), "user_query", TRUE))

process_user_query(state, user_query, max_date) ==
    LET apply(detected_filters_dict) ==
            IF detected_filters_dict = EmptyDict THEN state
            ELSE IF Truthy(GetOrNull(detected_filters_dict, "clear_all_filters"))
            THEN clear_all_filters
            \* the result of resolve_conflicts is computed and not used
            ELSE AddNewOrChanged(state,
                    FilterDefinitions(detected_filters_dict, "user_query", TRUE))
    IN apply(detect_filters_from_text(user_query, max_date))

\* _hash_dict: equal for two dicts that hold the same items, in any order
_hash_dict(d) == {<<d[i].k, d[i].v>> : i \in DOMAIN d}

\* UnifiedFilterManager.apply_disabled_filters_to_context: the state of the
\* store after the call and the context returned
apply_disabled_filters_to_context(state, context_dict, disabled_filter_ids) ==
    IF context_dict = EmptyDict \/ disabled_filter_ids = {}
    THEN [state |-> state, context |-> context_dict]
    \* disable_filter for every identifier given
    ELSE Only({[state |-> disabled, context |-> to_context_dict(disabled, TRUE)] :
            disabled \in {[state EXCEPT !.disabled =
                                @ \cup {id \in disabled_filter_ids : Has(state.filters, id)}]}})

\* ContextSynchronizer.sync_to_agent_context: the context of the active
\* filters (last_filter_state_hash, which only is_sync_needed reads, is left out)
sync_to_agent_context(state) == to_context_dict(state, TRUE)

\* [state, hash, changes_made]; the hash is last_agent_context_hash, pulled
\* being FALSE as long as it is None
sync_from_agent_context(agent_context, state, last_hash) ==
    LET ids(new_filters) == {filter_id(new_filters[i]) : i \in DOMAIN new_filters}
        \* remove_filter for every stored id that is not among new_filter_ids
        removed(new_filter_ids) ==
            [filters |-> SelectSeq(state.filters, LAMBDA e : e.k \in new_filter_ids),
             disabled |-> {d \in state.disabled :
                            ~Has(state.filters, d) \/ d \in new_filter_ids}]
        outcome(current_agent_hash, kept, synced) ==
            [state |-> synced, hash |-> current_agent_hash,
             changes_made |-> kept # state \/ synced # kept]
        added(current_agent_hash, kept, new_filters) ==
            outcome(current_agent_hash, kept, AddNewOrChanged(kept, new_filters))
        pull(current_agent_hash, new_filters) ==
            IF current_agent_hash = last_hash
            THEN [state |-> state, hash |-> last_hash, changes_made |-> FALSE]
            ELSE added(current_agent_hash, removed(ids(new_filters)), new_filters)
    IN pull([pulled |-> TRUE, items |-> _hash_dict(agent_context)],
            FilterDefinitions(agent_context, "agent_context", FALSE))

----------------------------------------------------------------------------
(* The inputs the calls are checked with *)

\* most filters of a context, most candidates of one call
MaxCtx == 2
MaxNew == 2

\* the fields the resolver is called with, in the order a context lists them
RKeySeq == <<"Data_>=", "Data_<", "UF_Cliente", "Municipio_Cliente", "Cod_Cliente">>
RKeys == {RKeySeq[i] : i \in DOMAIN RKeySeq}

\* the value a field has in a context, another value a candidate may bring, and
\* the empty value a candidate may bring (None, '' or [])
ValueOld(k) ==
    CASE k = "Data_>=" -> Str(<<"2","0","1","5","-","0","1","-","0","1">>)
      [] k = "Data_<" -> Str(<<"2","0","1","6","-","0","1","-","0","1">>)
      [] k = "UF_Cliente" -> Str(<<"S","C">>)
      [] k = "Municipio_Cliente" -> List(<<Str(<<"J","O","I","N","V","I","L","L","E">>)>>)
      [] OTHER -> Str(<<"1","9","1","1","4">>)
ValueNew(k) ==
    CASE k = "Data_>=" -> Str(<<"2","0","1","6","-","0","1","-","0","1">>)
      [] k = "Data_<" -> Str(<<"2","0","1","7","-","0","1","-","0","1">>)
      [] k = "UF_Cliente" -> Str(<<"S","P">>)
      [] k = "Municipio_Cliente" -> Str(<<"C","u","r","i","t","i","b","a">>)
      [] OTHER -> Str(<<"2","2">>)
ValueEmpty(k) ==
    CASE k = "UF_Cliente" -> EmptyStr
      [] k = "Municipio_Cliente" -> EmptyList
      [] OTHER -> Null

\* the context that holds the fields S
ContextOf(S) ==
    SelectSeq([i \in DOMAIN RKeySeq |-> Item(RKeySeq[i], ValueOld(RKeySeq[i]))],
              LAMBDA e : e.k \in S)
\* the contexts of at most MaxCtx filters
Contexts == {ContextOf(S) : S \in {T \in SUBSET RKeys : Cardinality(T) <= MaxCtx}}

\* the candidate sets of at most MaxNew fields, in every order of insertion
CandidateItems ==
    UNION {{Item(k, ValueOld(k)), Item(k, ValueNew(k)), Item(k, ValueEmpty(k))} : k \in RKeys}
Candidates ==
    {d \in UNION {[1..m -> CandidateItems] : m \in 0..MaxNew} :
        \A i, j \in DOMAIN d : i # j => d[i].k # d[j].k}

\* the texts of the user
Texts ==
    { <<"V","e","n","d","a","s"," ","e","m"," ","2","0","1","5">>, <<"p","e","d","i","d","o","s"," ","e","m"," ","2","0","1","5">>, <<"v","e","n","d","a","s"," ","d","e"," ","m","a","r","ç","o"," ","d","e"," ","2","0","1","6">>,
      <<"l","i","m","p","a","r"," ","f","i","l","t","r","o","s">>, <<"r","e","m","o","v","e","r"," ","t","o","d","o","s"," ","f","i","l","t","r","o","s"," ","d","e"," ","2","0","1","5"," ","e","m"," ","s","p">>, <<"c","i","d","a","d","e"," ","d","e"," ","j","o","i","n","v","i","l","l","e">>,
      <<"c","l","i","e","n","t","e","s"," ","d","e"," ","s","p">>, <<"ú","l","t","i","m","o","s"," ","3"," ","m","e","s","e","s">>, <<"q","u","a","i","s"," ","c","l","i","e","n","t","e","s">>, <<"t","o","t","a","l"," ","s","e","m"," ","d","e","s","c","o","n","t","o">> }

\* the last day of the dataset
MaxDates == { [y |-> 2016, m |-> 8, d |-> 31], [y |-> 2016, m |-> 1, d |-> 15] }

Strategies == {"smart", "replace", "merge", "keep_existing"}

----------------------------------------------------------------------------
(* The parts of the state a specification does not exercise stay as they are *)

NoResult == [ctx |-> EmptyDict, conflicts |-> <<>>]
NoDate == [y |-> 2016, m |-> 8, d |-> 31]
NoJsonResult == [ctx |-> EmptyDict, mudancas |-> <<>>, persistentes |-> filtros_iniciais]
\* last_agent_context_hash = None
NoHash == [pulled |-> FALSE, items |-> {}]
\* FilterState()
NewFilterState == [filters |-> EmptyDict, disabled |-> {}]
\* no turn taken yet.  A turn is recorded as [n, outcome, recreated, started_with,
\* disabled, ran_with, stored, held, left]: its number, "done", "error" (agent.run
\* raised) or "extraction_error" (the extraction raised), whether the agent
\* had been replaced since the turn before, last_context and disabled_filters
\* when it started, the persistent context agent.run was called with,
\* last_context when it ended and agent.persistent_context when it started and
\* when it ended; replaced tells that the agent was replaced after the turn;
\* message is the final message agent.run passed on, found the sql_queries that
\* agent.debug_info held when agent.run started, executed the queries the run
\* executed and sql_queries the ones the filters were extracted from
NoTurn == [n |-> 0, outcome |-> "none", replaced |-> FALSE, recreated |-> FALSE,
           started_with |-> EmptyDict, disabled |-> {}, ran_with |-> EmptyDict,
           stored |-> EmptyDict, held |-> EmptyDict, left |-> EmptyDict,
           message |-> <<>>, found |-> <<>>, executed |-> <<>>, sql_queries |-> <<>>]

ResolverIdle ==
    /\ r_text = <<>> /\ r_max_date = NoDate /\ r_now = NoDate /\ r_new = EmptyDict /\ r_existing = EmptyDict
    /\ r_strategy = "smart" /\ r_result = NoResult /\ r_pc = "idle"
JsonIdle ==
    /\ j_valid = EmptyDict /\ j_ctx = EmptyDict /\ j_json = EmptyDict /\ j_disabled = {}
    /\ j_result = NoJsonResult /\ j_persist = filtros_iniciais /\ j_pc = "idle"
StoreIdle == s_state = NewFilterState /\ s_hash = NoHash /\ s_hist = <<>>
AppIdle ==
    /\ a_agent = [id |-> 1, persistent_context |-> EmptyDict, debug_info |-> <<>>]
    /\ a_last_context = EmptyDict /\ a_last_agent_id = 0 /\ a_disabled = {}
    /\ a_turn = NoTurn

----------------------------------------------------------------------------
(* One call of the conflict resolver *)

InitResolver ==
    /\ r_pc = "ready"
    /\ r_text = <<>>
    /\ r_max_date = NoDate /\ r_now = NoDate
    /\ r_new \in Candidates
    /\ r_existing \in Contexts
    /\ r_strategy = "smart"
    /\ r_result = NoResult
    /\ JsonIdle /\ StoreIdle /\ AppIdle

\* resolver.resolve_conflicts(new_filters, existing, strategy)
Resolve ==
    /\ r_pc = "ready"
    /\ \E s \in Strategies :
        /\ r_strategy' = s
        /\ r_result' = resolve_conflicts(r_new, r_existing, s)
    /\ r_pc' = "done"
    /\ UNCHANGED <<r_text, r_max_date, r_now, r_new, r_existing, jvars, svars, avars>>

\* the same candidates resolved once more, against the context the first call
\* returned; the result of the first call is kept as r_result.first
ResolveAgain ==
    /\ r_pc = "done"
    /\ \E again \in {resolve_conflicts(r_new, r_result.ctx, r_strategy)} :
        r_result' = [ctx |-> again.ctx, conflicts |-> again.conflicts, first |-> r_result]
    /\ r_pc' = "again"
    /\ UNCHANGED <<r_text, r_max_date, r_now, r_new, r_existing, r_strategy, jvars, svars, avars>>

NextResolver == Resolve \/ ResolveAgain

SpecResolver == InitResolver /\ [][NextResolver]_vars

(* Claims on the conflict resolver *)

SmartDone == r_pc = "done" /\ r_strategy = "smart"

\* C2: under the 'smart' strategy a candidate that carries a null or empty value
\* for a field never erases the non-empty value the existing context has for
\* that field (the candidates holding no clear_all_filters)
C2_EmptyCandidateKeepsValue ==
    (SmartDone /\ ~Has(r_new, "clear_all_filters")) =>
        \A k \in Keys(r_existing) :
            (Truthy(Get(r_existing, k)) /\ Has(r_new, k) /\ ~Truthy(Get(r_new, k))) =>
                (Has(r_result.ctx, k) /\ Get(r_result.ctx, k) = Get(r_existing, k))

\* C5: an existing UF_Cliente and a candidate Municipio_Cliente without
\* UF_Cliente resolve to a context that holds the new Municipio_Cliente and no
\* UF_Cliente
C5_CityReplacesState ==
    (SmartDone /\ Has(r_existing, "UF_Cliente") /\ Has(r_new, "Municipio_Cliente")
        /\ ~Has(r_new, "UF_Cliente")) =>
        /\ Has(r_result.ctx, "Municipio_Cliente")
        /\ Get(r_result.ctx, "Municipio_Cliente") = Get(r_new, "Municipio_Cliente")
        /\ ~Has(r_result.ctx, "UF_Cliente")

----------------------------------------------------------------------------
(* One text of the user, given to the detector and from there to the         *)
(* resolver, to the JSON manager and to the store, each holding the filters  *)
(* of the turns before                                                       *)

\* the domain index _gerar_valores_validos builds from the dataset
Dataset ==
    << Item("UF_Cliente", <<Str(<<"P","R">>), Str(<<"S","C">>), Str(<<"S","P">>)>>),
       Item("Municipio_Cliente", <<Str(<<"C","U","R","I","T","I","B","A">>), Str(<<"J","O","I","N","V","I","L","L","E">>)>>),
       Item("Cod_Cliente", <<Str(<<"1","9","1","1","4">>), Str(<<"2","2">>)>>) >>

\* the store after it pulled the context of the turns before
StoreOf(context) == sync_from_agent_context(context, NewFilterState, NoHash)

MaxDisabled == 2
\* the sets of at most MaxDisabled identifiers out of ids
SomeOf(ids) == {D \in SUBSET ids : Cardinality(D) <= MaxDisabled}

InitTurn ==
    /\ r_pc = "text"
    /\ r_text \in Texts
    /\ r_max_date \in MaxDates /\ r_now = NoDate
    /\ r_new = EmptyDict
    /\ r_existing \in Contexts
    /\ r_strategy = "smart"
    /\ r_result = NoResult
    /\ j_valid = Dataset /\ j_ctx = r_existing /\ j_json = EmptyDict /\ j_disabled = {}
    /\ j_result = NoJsonResult /\ j_persist = filtros_iniciais /\ j_pc = "merge"
    /\ \E store \in {StoreOf(r_existing)} :
            /\ \E D \in SomeOf(Keys(store.state.filters)) :
                    s_state = [store.state EXCEPT !.disabled = D]
            /\ s_hash = store.hash
    /\ s_hist = <<>>
    /\ AppIdle

\* new_filters = detector.detect_filters_from_text(text, existing, max_date)
Detect ==
    /\ r_pc = "text"
    /\ r_new' = detect_filters_from_text(r_text, r_max_date)
    /\ r_pc' = "ready"
    /\ UNCHANGED <<r_text, r_max_date, r_now, r_existing, r_strategy, r_result, jvars, svars, avars>>

\* manager._atualizar_filtros_do_json(new_filters, contexto_atual)
MergeDetected ==
    /\ r_pc # "text" /\ j_pc = "merge"
    /\ j_json' = r_new
    /\ j_result' = _atualizar_filtros_do_json(j_valid, j_persist, r_new, j_ctx)
    /\ j_persist' = j_result'.persistentes
    /\ j_pc' = "merged"
    /\ UNCHANGED <<j_valid, j_ctx, j_disabled, rvars, svars, avars>>

\* one more call in what s_hist remembers of the store's calls: the latest two,
\* each with the state it found and its number
Calls == IF s_hist = <<>> THEN 0 ELSE s_hist[1].n
Called(op, id) ==
    <<[op |-> op, id |-> id, before |-> s_state, n |-> Calls + 1]>>
        \o SubSeq(s_hist, 1, Min({1, Len(s_hist)}))

\* manager.process_user_query(text, max_date)
QueryStore ==
    /\ s_hist = <<>>
    /\ s_state' = process_user_query(s_state, r_text, r_max_date)
    /\ s_hist' = Called("process_user_query", <<>>)
    /\ UNCHANGED <<s_hash, rvars, jvars, avars>>

NextTurn == Detect \/ Resolve \/ MergeDetected \/ QueryStore

SpecTurn == InitTurn /\ [][NextTurn]_vars

(* Claims on one text through the three engines *)

\* the words of a text
Words(text) ==
    {SubSeq(text, q[1], q[2]) :
        q \in {p \in (1..Len(text)) \X (1..Len(text)) :
                /\ p[1] <= p[2]
                /\ \A i \in p[1]..p[2] : text[i] # " "
                /\ (p[1] = 1 \/ text[p[1] - 1] = " ")
                /\ (p[2] = Len(text) \/ text[p[2] + 1] = " ")}}

\* the years a text mentions
YearsOf(text) == {w \in Words(text) : Len(w) = 4 /\ w[1] = "2" /\ w[2] = "0" /\ isdigit(w)}

\* words that name no place, no period and no command
PlainWords == {<<"v","e","n","d","a","s">>, <<"p","e","d","i","d","o","s">>, <<"e","m">>, <<"q","u","a","i","s">>, <<"c","l","i","e","n","t","e","s">>}

\* the text mentions a year and nothing else that could be a filter
MentionsOnlyYear(text) ==
    /\ Cardinality(YearsOf(text)) = 1
    /\ Words(Lower(text)) \ YearsOf(text) \subseteq PlainWords

Joinville == <<Item("Municipio_Cliente", List(<<Str(<<"J","O","I","N","V","I","L","L","E">>)>>))>>

\* the context of turn 1 with the range of the year of the text
JoinvilleAndYear(text) ==
    Joinville \o
    << Item("Data_>=", Str(Only(YearsOf(text)) \o <<"-","0","1","-","0","1">>)),
       Item("Data_<", Str(IntStr(ParseInt(Only(YearsOf(text))) + 1) \o <<"-","0","1","-","0","1">>)) >>

\* the fields of the semantic groups
GroupFields == {{g.fields[i] : i \in DOMAIN g.fields} : g \in {conflict_groups[n] : n \in DOMAIN conflict_groups}}

\* every field of before that is not of the group G has its value in after
OtherGroupsKept(G, before, after) ==
    \A k \in Keys(before) \ G : Has(after, k) /\ Get(after, k) = Get(before, k)

QueryDone == s_hist # <<>> /\ s_hist[1].op = "process_user_query"

\* C3: filters persist across turns.  With Municipio_Cliente = ["JOINVILLE"]
\* from turn 1 and a text that mentions only a year Y, the context after the
\* turn (resolve_conflicts, and the active view after process_user_query) is
\* exactly the filter of turn 1 plus Data_>= = Y-01-01 and Data_< = (Y+1)-01-01;
\* and a turn whose detected filters all belong to one semantic group leaves
\* every filter of the other groups as it was.
C3_FiltersPersistAcrossTurns ==
    /\ (r_existing = Joinville /\ MentionsOnlyYear(r_text)) =>
        /\ SmartDone => DictEq(r_result.ctx, JoinvilleAndYear(r_text))
        /\ (QueryDone /\ s_hist[1].before.disabled = {}) =>
                DictEq(to_context_dict(s_state, TRUE), JoinvilleAndYear(r_text))
    /\ \A G \in GroupFields :
        (r_pc # "text" /\ r_new # EmptyDict /\ Keys(r_new) \subseteq G) =>
            /\ SmartDone => OtherGroupsKept(G, r_existing, r_result.ctx)
            /\ QueryDone => OtherGroupsKept(G, to_context_dict(s_hist[1].before, TRUE),
                                            to_context_dict(s_state, TRUE))

\* C4: when the detected filters carry clear_all_filters the context is empty
\* whatever was held before: resolve_conflicts returns {},
\* _atualizar_filtros_do_json returns {}, process_user_query leaves the store
\* with no filter and no disabled id; the text yields no other filter.
C4_ClearEmptiesEverything ==
    (r_pc # "text" /\ Has(r_new, "clear_all_filters")) =>
        /\ r_new = <<Item("clear_all_filters", True_)>>
        /\ r_pc = "done" => r_result.ctx = EmptyDict
        /\ j_pc = "merged" => j_result.ctx = EmptyDict
        /\ QueryDone => (s_state.filters = EmptyDict /\ s_state.disabled = {})

\* a clear command went through the three engines, each holding filters and the
\* store a disabled one
C4_Witness ==
    /\ Has(r_new, "clear_all_filters")
    /\ r_pc = "done" /\ j_pc = "merged" /\ QueryDone
    /\ r_existing # EmptyDict
    /\ s_hist[1].before.filters # EmptyDict /\ s_hist[1].before.disabled # {}
    /\ s_state = NewFilterState

----------------------------------------------------------------------------
(* One call of the JSON filter manager: the merge of an extracted structure, *)
(* or the removal of the disabled filters                                    *)

CategoryOf(k) ==
    CASE k \in {"Data", "Data_>=", "Data_<"} -> "periodo"
      [] k \in {"UF_Cliente", "Municipio_Cliente"} -> "regiao"
      [] OTHER -> "cliente"

\* the JSON structure that carries the candidates d by category, the
\* categories in the order the candidates first name them
Structure(d) ==
    LET first(i) == \A j \in 1..(i - 1) : CategoryOf(d[j].k) # CategoryOf(d[i].k)
        firsts == SelectSeq([i \in DOMAIN d |-> [at |-> i, k |-> CategoryOf(d[i].k)]],
                            LAMBDA c : first(c.at))
    IN [n \in DOMAIN firsts |->
            Item(firsts[n].k, Dict(SelectSeq(d, LAMBDA e : CategoryOf(e.k) = firsts[n].k)))]

\* what a structure may carry beside its categories
Instructions ==
    { <<>>,
      <<Item("clear_all_filters", True_)>>,
      <<Item("remover_filtros", List(<<Str(<<"U","F","_","C","l","i","e","n","t","e">>), Str(<<"D","a","t","a","_","<">>)>>))>> }

JsonStructures == {Structure(d) \o i : d \in Candidates, i \in Instructions}

\* the structures of a model response that gives a category it has no filter
\* for as null ({"regiao": null}), with or without a clear instruction
MalformedStructures ==
    {Put(s, c, Null) : s \in {x \in JsonStructures : ~Has(x, "remover_filtros")},
                       c \in {"regiao", "periodo"}}

\* the contexts, and the contexts in which a bound of the range was extracted
\* as null by _convert_sql_json_to_context
ContextsToFilter ==
    Contexts \cup {Put(c, "Data_>=", Null) : c \in {x \in Contexts : Has(x, "Data_>=")}}

\* the identifiers the sidebar can have disabled for a context, and one of a
\* filter the context does not hold
IdsOf(context) ==
    {FilterId(context[i].k, context[i].v) : i \in DOMAIN context}
    \cup {RangeId(GetOrNull(context, "Data_>="), GetOrNull(context, "Data_<"))}
    \cup {<<"U","F","_","C","l","i","e","n","t","e",":","R","S">>}

InitJson ==
    /\ j_valid = Dataset
    /\ j_persist = filtros_iniciais
    /\ j_result = NoJsonResult
    /\ \/ /\ j_pc \in {"merge", "respond"}
          /\ j_ctx \in Contexts
          /\ j_json \in JsonStructures \cup MalformedStructures
          /\ j_disabled = {}
       \/ /\ j_pc = "apply"
          /\ j_ctx \in ContextsToFilter
          /\ j_json = EmptyDict
          /\ j_disabled \in SomeOf(IdsOf(j_ctx))
    /\ ResolverIdle /\ StoreIdle /\ AppIdle

\* manager._atualizar_filtros_do_json(json_filtros, contexto_atual)
\* (j_pc = "raised": the call ended with an exception and returned nothing)
AtualizarFiltros ==
    /\ j_pc = "merge"
    /\ IF _atualizar_filtros_do_json_raises(j_json)
       THEN j_pc' = "raised" /\ UNCHANGED <<j_result, j_persist>>
       ELSE /\ j_result' = _atualizar_filtros_do_json(j_valid, j_persist, j_json, j_ctx)
            /\ j_persist' = j_result'.persistentes
            /\ j_pc' = "merged"
    /\ UNCHANGED <<j_valid, j_ctx, j_json, j_disabled, rvars, svars, avars>>

\* manager.processar_json_response(response_text, contexto_atual)
ProcessarJsonResponse ==
    /\ j_pc = "respond"
    /\ j_result' = processar_json_response(j_valid, j_persist, j_json, j_ctx)
    /\ j_persist' = j_result'.persistentes
    /\ j_pc' = "responded"
    /\ UNCHANGED <<j_valid, j_ctx, j_json, j_disabled, rvars, svars, avars>>

\* manager.aplicar_filtros_desabilitados(contexto, filtros_desabilitados)
AplicarFiltrosDesabilitados ==
    /\ j_pc = "apply"
    /\ j_result' = [NoJsonResult EXCEPT !.ctx = aplicar_filtros_desabilitados(j_ctx, j_disabled)]
    /\ j_pc' = "applied"
    /\ UNCHANGED <<j_valid, j_ctx, j_json, j_disabled, j_persist, rvars, svars, avars>>

\* the same structure merged once more, into the context the first call
\* returned; the result of the first call is kept as j_result.first
AtualizarFiltrosDeNovo ==
    /\ j_pc = "merged"
    /\ \E again \in {_atualizar_filtros_do_json(j_valid, j_persist, j_json, j_result.ctx)} :
        /\ j_result' = [ctx |-> again.ctx, mudancas |-> again.mudancas,
                        persistentes |-> again.persistentes, first |-> j_result]
        /\ j_persist' = again.persistentes
    /\ j_pc' = "merged_again"
    /\ UNCHANGED <<j_valid, j_ctx, j_json, j_disabled, rvars, svars, avars>>

NextJson ==
    \/ AtualizarFiltros
    \/ AtualizarFiltrosDeNovo
    \/ ProcessarJsonResponse
    \/ AplicarFiltrosDesabilitados

SpecJson == InitJson /\ [][NextJson]_vars

(* Claims on the JSON filter manager *)

\* the value of a field of the structure is null, [] or ''
EmptyValue(v) == v = Null \/ v = EmptyList \/ v = EmptyStr

\* the fields the categories of a structure carry
FieldsOf(json) ==
    UNION {{[k |-> json[i].v.v[n].k, v |-> json[i].v.v[n].v] : n \in DOMAIN json[i].v.v} :
            i \in {c \in DOMAIN json : json[c].v.t = "dict"}}

\* C1: the merge is not destructive.  For a non-empty context C and a structure
\* in which a field of C carries null, [] or '', with no clear instruction, no
\* remover_filtros and no periodo entry, _atualizar_filtros_do_json returns a
\* context in which every field of C is present with the value it had in C.
C1_MergeKeepsContext ==
    (/\ j_pc = "merged"
     /\ j_ctx # EmptyDict
     /\ \E f \in FieldsOf(j_json) : Has(j_ctx, f.k) /\ EmptyValue(f.v)
     /\ ~Has(j_json, "clear_all_filters") /\ ~Has(j_json, "limpar_filtros")
     /\ ~Has(j_json, "remover_filtros") /\ ~Has(j_json, "periodo")) =>
        \A k \in Keys(j_ctx) : Has(j_result.ctx, k) /\ Get(j_result.ctx, k) = Get(j_ctx, k)

\* C6: for a context that holds both Data_>= and Data_< and any set of
\* disabled identifiers, aplicar_filtros_desabilitados returns a context with
\* both bounds or with neither, and with neither exactly when
\* Data_range:<start>_<end> is disabled (an identifier of one bound removes
\* nothing).
C6_RangeRemovedAsOne ==
    (j_pc = "applied" /\ Has(j_ctx, "Data_>=") /\ Has(j_ctx, "Data_<")) =>
        /\ Has(j_result.ctx, "Data_>=") <=> Has(j_result.ctx, "Data_<")
        /\ ~Has(j_result.ctx, "Data_>=") <=>
                RangeId(Get(j_ctx, "Data_>="), Get(j_ctx, "Data_<")) \in j_disabled

----------------------------------------------------------------------------
(* The unified filter store over a session: pulls of the agent context,      *)
(* queries of the user and the toggles of the sidebar                        *)

MaxCalls == 4

\* the identifiers a caller can name: those of the stored filters and one of a
\* filter that is not stored
Nameable == Keys(s_state.filters) \cup {<<"U","F","_","C","l","i","e","n","t","e",":","R","S">>}

\* the contexts the agent hands over and the texts the user writes in a session
AgentContexts ==
    {ContextOf(S) : S \in {{}, {"Data_>=", "Data_<"}, {"UF_Cliente"},
                           {"UF_Cliente", "Municipio_Cliente"}}}
SessionTexts ==
    {<<"V","e","n","d","a","s"," ","e","m"," ","2","0","1","5">>,
     <<"c","l","i","e","n","t","e","s"," ","d","e"," ","s","p">>,
     <<"l","i","m","p","a","r"," ","f","i","l","t","r","o","s">>}
SessionDates == {NoDate}

InitStore ==
    /\ s_state = NewFilterState
    /\ s_hash = NoHash
    /\ s_hist = <<>>
    /\ ResolverIdle /\ JsonIdle /\ AppIdle

\* manager.sync_with_agent_context(agent_context)
SyncWithAgentContext ==
    /\ Calls < MaxCalls
    /\ \E agent_context \in AgentContexts :
        \E pulled \in {sync_from_agent_context(agent_context, s_state, s_hash)} :
            /\ s_state' = pulled.state
            /\ s_hash' = pulled.hash
    /\ s_hist' = Called("sync_with_agent_context", <<>>)
    /\ UNCHANGED <<rvars, jvars, avars>>

\* manager.process_user_query(user_query, max_date)
ProcessUserQuery ==
    /\ Calls < MaxCalls
    /\ \E user_query \in SessionTexts, max_date \in SessionDates :
        s_state' = process_user_query(s_state, user_query, max_date)
    /\ s_hist' = Called("process_user_query", <<>>)
    /\ UNCHANGED <<s_hash, rvars, jvars, avars>>

\* filter_state.disable_filter(filter_id)
DisableFilter ==
    /\ Calls < MaxCalls
    /\ \E id \in Nameable :
        /\ s_state' = disable_filter(s_state, id)
        /\ s_hist' = Called("disable_filter", id)
    /\ UNCHANGED <<s_hash, rvars, jvars, avars>>

\* filter_state.enable_filter(filter_id)
EnableFilter ==
    /\ Calls < MaxCalls
    /\ \E id \in Nameable :
        /\ s_state' = enable_filter(s_state, id)
        /\ s_hist' = Called("enable_filter", id)
    /\ UNCHANGED <<s_hash, rvars, jvars, avars>>

\* manager.toggle_filter(filter_id, enabled)
ToggleFilter ==
    /\ Calls < MaxCalls
    /\ \E id \in Nameable, enabled \in BOOLEAN :
        /\ s_state' = toggle_filter(s_state, id, enabled)
        /\ s_hist' = Called(IF enabled THEN "enable_filter" ELSE "disable_filter", id)
    /\ UNCHANGED <<s_hash, rvars, jvars, avars>>

\* filter_state.remove_filter(filter_id)
RemoveFilter ==
    /\ Calls < MaxCalls
    /\ \E id \in Nameable :
        /\ s_state' = remove_filter(s_state, id)
        /\ s_hist' = Called("remove_filter", id)
    /\ UNCHANGED <<s_hash, rvars, jvars, avars>>

\* manager.clear_all_filters()
ClearAllFilters ==
    /\ Calls < MaxCalls
    /\ s_state' = clear_all_filters
    /\ s_hist' = Called("clear_all_filters", <<>>)
    /\ UNCHANGED <<s_hash, rvars, jvars, avars>>

\* manager.get_agent_context(): the mapping returned is kept as the id of the call
GetAgentContext ==
    /\ Calls < MaxCalls
    /\ s_hist' = Called("sync_to_agent_context", sync_to_agent_context(s_state))
    /\ UNCHANGED <<s_state, s_hash, rvars, jvars, avars>>

\* manager.sync_with_agent_context(context) with the mapping get_agent_context
\* has just returned; what the call returns is kept as its id
SyncBack ==
    /\ Calls < MaxCalls
    /\ s_hist # <<>> /\ s_hist[1].op = "sync_to_agent_context"
    /\ \E pulled \in {sync_from_agent_context(s_hist[1].id, s_state, s_hash)} :
            /\ s_state' = pulled.state
            /\ s_hash' = pulled.hash
            /\ s_hist' = Called("sync_from_agent_context", pulled.changes_made)
    /\ UNCHANGED <<rvars, jvars, avars>>

NextStore ==
    \/ SyncWithAgentContext \/ ProcessUserQuery
    \/ DisableFilter \/ EnableFilter \/ ToggleFilter
    \/ RemoveFilter \/ ClearAllFilters
    \/ GetAgentContext \/ SyncBack

SpecStore == InitStore /\ [][NextStore]_vars

\* ---- claims about the store's toggles ----

Toggled == s_hist # <<>> /\ s_hist[1].op \in {"disable_filter", "enable_filter"}
HoldsRange(state) ==
    /\ \E i \in DOMAIN state.filters :
        state.filters[i].v.key = "Data" /\ state.filters[i].v.operator = <<">","=">>
    /\ \E i \in DOMAIN state.filters :
        state.filters[i].v.key = "Data" /\ state.filters[i].v.operator = <<"<">>
BoundsPaired(state) ==
    Has(to_context_dict(state, TRUE), "Data_>=") <=> Has(to_context_dict(state, TRUE), "Data_<")

\* C7: a toggle (toggle_filter, disable_filter, enable_filter) on a store that
\* holds a date range whose two bounds are both active or both inactive leaves
\* the active view with both Data_>= and Data_< or with neither
C7_RangeToggledAsOne ==
    (Toggled /\ HoldsRange(s_hist[1].before) /\ BoundsPaired(s_hist[1].before)) =>
        BoundsPaired(s_state)

WithoutFilter(filters, id) == SelectSeq(filters, LAMBDA e : e.k # id)
EnabledAfterDisabled ==
    /\ Len(s_hist) = 2
    /\ s_hist[1].op = "enable_filter" /\ s_hist[2].op = "disable_filter"
    /\ s_hist[1].id = s_hist[2].id
ViewRestored ==
    /\ get_active_filters(s_state) = get_active_filters(s_hist[2].before)
    /\ to_context_dict(s_state, TRUE) = to_context_dict(s_hist[2].before, TRUE)
DisableIsSoft ==
    (s_hist # <<>> /\ s_hist[1].op = "disable_filter") =>
        /\ s_state.filters = s_hist[1].before.filters
        /\ get_active_filters(s_state) =
               WithoutFilter(get_active_filters(s_hist[1].before), s_hist[1].id)

\* C8 as stated: disable_filter(id) leaves the filters mapping unchanged and
\* only takes that filter out of the active view, and a following
\* enable_filter(id) restores the active view of before the disable
C8_EnableRestoresView ==
    /\ DisableIsSoft
    /\ EnabledAfterDisabled => ViewRestored

\* C8 amended: disable_filter(id) leaves the filters mapping unchanged and only
\* takes that filter out of the active view, and a following enable_filter(id)
\* restores the active view of before the disable when the filter was not
\* already disabled at the time of the disable
C8_EnableRestoresEnabledView ==
    /\ DisableIsSoft
    /\ (EnabledAfterDisabled /\ s_hist[2].id \notin s_hist[2].before.disabled) => ViewRestored

C8_Witness ==
    /\ EnabledAfterDisabled
    /\ Has(s_hist[2].before.filters, s_hist[2].id)
    /\ s_hist[2].id \notin s_hist[2].before.disabled
    /\ s_hist[2].id \in s_hist[1].before.disabled
    /\ Len(s_state.filters) >= 2

----------------------------------------------------------------------------
(* The chat turns of the application: app.py and PrincipalAgent *)

MaxTurns == 3

\* id(agent) of the instances the session can hold; 0 stands for a session
\* without last_agent_id
AgentIds == {1, 2}

\* PrincipalAgent.__init__: persistent_context = {}, debug_info = {}.  Of
\* debug_info the model keeps the list under 'sql_queries'
PrincipalAgent(id) == [id |-> id, persistent_context |-> EmptyDict, debug_info |-> <<>>]

\* DebugDuckDbTools.run_query: the query the agent executes is recorded in the
\* debug_info of the agent, once
run_query(agent, query) ==
    IF \E i \in DOMAIN agent.debug_info : agent.debug_info[i] = query
    THEN agent
    ELSE [agent EXCEPT !.debug_info = Append(@, query)]

\* an update that leaves the agent with the context it ran with
keep_persistent_context(agent, new_context) == agent

update_persistent_context(agent, new_context) ==
    [agent EXCEPT !.persistent_context = new_context]

clear_persistent_context(agent) == [agent EXCEPT !.persistent_context = EmptyDict]

\* PrincipalAgent._format_persistent_context_for_prompt.  The text is given by
\* its lines, the empty text by no line
_format_persistent_context_for_prompt(persistent_context) ==
    LET any(xs, key) == \E x \in xs : Contains(KeyText(key), x)
        \* the list to which the if/elif chain appends the filter of the key
        list_of(key) ==
            IF key \in {"Data", "Data_>=", "Data_<", "periodo", "mes", "ano"} THEN "temporal_filters"
            ELSE IF key \in {"UF_Cliente", "Municipio_Cliente", "cidade", "estado"} THEN "region_filters"
            ELSE IF key \in {"Cod_Cliente", "Cod_Segmento_Cliente"} THEN "client_filters"
            ELSE IF any({<<"P","r","o","d","u","t","o">>, <<"F","a","m","i","l","i","a">>, <<"G","r","u","p","o">>, <<"L","i","n","h","a">>}, key) THEN "product_filters"
            ELSE IF any({<<"V","e","n","d","e","d","o","r">>, <<"R","e","p","r","e","s","e","n","t","a","n","t","e">>, <<"R","e","g","i","a","o","_","V","e","n","d","e","d","o","r">>}, key) THEN "representative_filters"
            ELSE "none"
        RECURSIVE join(_)
        \* ', '.join(l)
        join(l) ==
            IF l = <<>> THEN <<>>
            ELSE l[1] \o (IF Len(l) > 1 THEN <<",", " ">> ELSE <<>>) \o join(Tail(l))
        \* f"{key}: {value}" of the filters of a list
        texts(filters) == [i \in DOMAIN filters |-> KeyText(filters[i].k) \o <<":", " ">> \o PyStr(filters[i].v)]
        part(label, filters) == IF filters # <<>> THEN << label \o join(texts(filters)) >> ELSE <<>>
        line(label, list) == part(label, SelectSeq(persistent_context, LAMBDA e : list_of(e.k) = list))
    IN IF persistent_context = EmptyDict THEN <<>>
       ELSE << <<"F","I","L","T","R","O","S"," ","A","T","I","V","O","S"," ","N","A"," ","C","O","N","V","E","R","S","A",":">> >>
            \o line(<<"-"," ","P","e","r","í","o","d","o",":"," ">>, "temporal_filters")
            \o line(<<"-"," ","R","e","g","i","ã","o",":"," ">>, "region_filters")
            \o line(<<"-"," ","C","l","i","e","n","t","e",":"," ">>, "client_filters")
            \o line(<<"-"," ","P","r","o","d","u","t","o",":"," ">>, "product_filters")
            \o line(<<"-"," ","R","e","p","r","e","s","e","n","t","a","n","t","e",":"," ">>, "representative_filters")
            \o << <<>>, <<"I","M","P","O","R","T","A","N","T","E",":"," ","P","R","E","S","E","R","V","E"," ","e","s","t","e","s"," ","f","i","l","t","r","o","s"," ","n","o"," ","s","e","u"," ","J","S","O","N"," ","r","e","s","p","o","n","s","e",","," ","a","d","i","c","i","o","n","a","n","d","o"," ","a","p","e","n","a","s"," ","n","o","v","o","s"," ","f","i","l","t","r","o","s"," ","d","e","t","e","c","t","a","d","o","s"," ","n","a"," ","p","e","r","g","u","n","t","a"," ","a","t","u","a","l",".">> >>

\* PrincipalAgent.run: the final_message passed on to the model, by its lines.
\* The agent has no conversation memory
run(agent, message) ==
    IF agent.persistent_context # EmptyDict
    THEN <<message>> \o << <<>> >> \o _format_persistent_context_for_prompt(agent.persistent_context)
    ELSE <<message>>

\* a synchronisation that never restores
sincronizar_sem_restaurar(agent, last_context) == agent

_sincronizar_contexto_agente(agent, last_context) ==
    IF last_context # EmptyDict /\ agent.persistent_context = EmptyDict
    THEN [agent EXCEPT !.persistent_context = last_context]
    ELSE agent

\* the filters one query's comparisons column OP 'value' give, by field
ExtractedContexts ==
    {ContextOf({"UF_Cliente"}), ContextOf({"Data_>=", "Data_<"}),
     <<Item("UF_Cliente", ValueNew("UF_Cliente"))>>}

\* the identifiers the sidebar offers for the filters of a context
SidebarIds(context) ==
    {FilterId(context[i].k, context[i].v) :
        i \in {j \in DOMAIN context : context[j].k \notin {"Data_>=", "Data_<"}}}
    \cup (IF Has(context, "Data_>=") /\ Has(context, "Data_<")
          THEN {RangeId(Get(context, "Data_>="), Get(context, "Data_<"))}
          ELSE {})

\* _handle_user_input(prompt, agent), with the session's last_context,
\* last_agent_id and disabled_filters; run_raises: agent.run raises;
\* extracted: the filters extracted from the SQL of the turn ({} for none);
\* extraction_raises: processar_filtros_apenas_sql raises, which leaves
\* debug_info without extracted_filters and with filter_extraction_error
\* the prompt of the user, and the queries the agent may execute for it
UserPrompt == <<"v","e","n","d","a","s">>
ExecutedQueries == { <<>>, <<"SELECT 1">> }

_handle_user_input(agent, last_context, last_agent_id, disabled_filters, executed, run_raises, extracted, extraction_raises) ==
    LET withheld(synced) ==
            IF disabled_filters # {} /\ synced.persistent_context # EmptyDict
            THEN [synced EXCEPT !.persistent_context =
                        aplicar_filtros_desabilitados(@, disabled_filters)]
            ELSE synced
        \* the agent was recreated: the context is taken from last_context
        context(ran) ==
            IF last_agent_id # 0 /\ last_agent_id # ran.id /\ last_context # EmptyDict
            THEN last_context
            ELSE ran.persistent_context
        RECURSIVE queried(_, _)
        \* agent.run(prompt): the agent after the queries of the run
        queried(ran, i) ==
            IF i > Len(executed) THEN ran ELSE queried(run_query(ran, executed[i]), i + 1)
        turn(ran, outcome, sql_queries) ==
            [ran_with |-> ran.persistent_context, message |-> run(ran, UserPrompt),
             found |-> ran.debug_info, executed |-> executed,
             sql_queries |-> sql_queries, outcome |-> outcome]
        \* agent.debug_info.clear() and the context stored
        stored(ran, updated_context, outcome, sql_queries) ==
            [agent |-> [update_persistent_context(ran, updated_context) EXCEPT !.debug_info = <<>>],
             last_context |-> updated_context, last_agent_id |-> ran.id,
             turn |-> turn(ran, outcome, sql_queries)]
        \* after: the agent when agent.run returned or raised
        finish(ran, after) ==
            IF run_raises
            THEN [agent |-> after, last_context |-> last_context,
                  last_agent_id |-> last_agent_id, turn |-> turn(ran, "error", <<>>)]
            \* if sql_queries: the filters are extracted
            ELSE IF after.debug_info = <<>>
            THEN stored(ran, context(ran), "done", <<>>)
            ELSE IF extraction_raises
            THEN stored(ran, context(ran), "extraction_error", after.debug_info)
            ELSE stored(ran, Update(context(ran), extracted), "done", after.debug_info)
        handle(ran) == finish(ran, queried(ran, 1))
    IN handle(withheld(_sincronizar_contexto_agente(agent, last_context)))

InitApp ==
    /\ a_agent = PrincipalAgent(1)
    /\ a_last_context = EmptyDict
    /\ a_last_agent_id = 0
    /\ a_disabled = {}
    /\ a_turn = NoTurn
    /\ ResolverIdle /\ JsonIdle /\ StoreIdle

\* the user sends a question
HandleUserInput ==
    /\ a_turn.n < MaxTurns
    /\ \E executed \in ExecutedQueries, run_raises \in BOOLEAN,
          extracted \in {EmptyDict} \cup ExtractedContexts, extraction_raises \in BOOLEAN :
        \E t \in {_handle_user_input(a_agent, a_last_context, a_last_agent_id, a_disabled,
                                     executed, run_raises, extracted, extraction_raises)} :
            /\ a_agent' = t.agent
            /\ a_last_context' = t.last_context
            /\ a_last_agent_id' = t.last_agent_id
            /\ a_turn' = [n |-> a_turn.n + 1, outcome |-> t.turn.outcome, replaced |-> FALSE,
                          recreated |-> a_turn.replaced, started_with |-> a_last_context,
                          disabled |-> a_disabled, ran_with |-> t.turn.ran_with,
                          stored |-> t.last_context,
                          held |-> a_agent.persistent_context,
                          left |-> t.agent.persistent_context,
                          message |-> t.turn.message, found |-> t.turn.found,
                          executed |-> t.turn.executed, sql_queries |-> t.turn.sql_queries]
    /\ UNCHANGED <<a_disabled, rvars, jvars, svars>>

\* the session loses its agent and gets a new instance; id() of the new
\* instance may be that of the instance it replaces
RecreateAgent ==
    /\ \E id \in AgentIds : a_agent' = PrincipalAgent(id)
    /\ a_turn' = [a_turn EXCEPT !.replaced = TRUE]
    /\ UNCHANGED <<a_last_context, a_last_agent_id, a_disabled, rvars, jvars, svars>>

\* the user switches a filter of the sidebar off or on
ToggleSidebarFilter ==
    /\ \E id \in SidebarIds(a_last_context) \cup a_disabled :
        /\ a_disabled' = IF id \in a_disabled THEN a_disabled \ {id} ELSE a_disabled \cup {id}
        /\ Cardinality(a_disabled') <= MaxDisabled
    /\ UNCHANGED <<a_agent, a_last_context, a_last_agent_id, a_turn, rvars, jvars, svars>>

\* the button "Limpar": the cached agent is dropped and its context, the
\* disabled filters and last_context are cleared
ClearChat ==
    /\ \E id \in AgentIds : a_agent' = clear_persistent_context(PrincipalAgent(id))
    /\ a_disabled' = {}
    /\ a_last_context' = EmptyDict
    /\ a_turn' = [a_turn EXCEPT !.replaced = TRUE]
    /\ UNCHANGED <<a_last_agent_id, rvars, jvars, svars>>

NextApp == HandleUserInput \/ RecreateAgent \/ ToggleSidebarFilter \/ ClearChat

SpecApp == InitApp /\ [][NextApp]_vars

\* ---- claims about the chat turns ----

\* last_context without the filters whose identifier is disabled: a field by
\* field:value, the two bounds of a range by Data_range:start_end
WithoutDisabled(context, ids) ==
    SelectSeq(context, LAMBDA e :
        IF e.k \in {"Data_>=", "Data_<"} /\ Has(context, "Data_>=") /\ Has(context, "Data_<")
        THEN RangeId(Get(context, "Data_>="), Get(context, "Data_<")) \notin ids
        ELSE FilterId(e.k, e.v) \notin ids)
DisabledKeys(context, ids) == Keys(context) \ Keys(WithoutDisabled(context, ids))

\* C9: a filter of last_context whose identifier is in disabled_filters when a
\* turn starts is not in the context agent.run is called with, and its field is
\* still in last_context after the turn
C9_DisabledFilterSurvivesTurn ==
    a_turn.n > 0 =>
        \A k \in DisabledKeys(a_turn.started_with, a_turn.disabled) :
            /\ ~Has(a_turn.ran_with, k)
            /\ Has(a_turn.stored, k)

\* C10: in a turn that follows the replacement of the agent by a new instance
\* (empty persistent context) while last_context is not empty, agent.run is
\* called with last_context minus the disabled filters, and the context stored
\* at the end of the turn holds every key of that restored context
C10_DriftRestoresLastContext ==
    (a_turn.n > 0 /\ a_turn.recreated /\ a_turn.started_with # EmptyDict) =>
        /\ a_turn.ran_with = WithoutDisabled(a_turn.started_with, a_turn.disabled)
        /\ Keys(a_turn.ran_with) \subseteq Keys(a_turn.stored)

C10_Witness ==
    /\ a_turn.n > 0 /\ a_turn.recreated /\ a_turn.outcome = "done"
    /\ a_turn.disabled # {}
    /\ a_turn.ran_with # EmptyDict
    /\ a_turn.ran_with # a_turn.started_with
    /\ a_turn.stored # a_turn.started_with

\* C11: fail-safe merge.  An exception raised inside the merge does not reach
\* the caller: no call of _atualizar_filtros_do_json ends with an exception,
\* and a call of processar_json_response on a structure that makes the merge
\* raise returns the existing context unchanged with a change list that holds
\* an entry describing the error.
C11_FailSafeMerge ==
    /\ j_pc # "raised"
    /\ (j_pc = "responded" /\ _atualizar_filtros_do_json_raises(j_json)) =>
          /\ j_result.ctx = j_ctx
          /\ \E i \in DOMAIN j_result.mudancas : j_result.mudancas[i] = "Erro ao processar JSON"

\* C12: a failed turn loses no filter state.  After a turn in which agent.run
\* raised or the extraction of the filters from the SQL raised, last_context is
\* what it was when the turn started and agent.persistent_context holds every
\* filter, with its value, that it held when the turn started.
C12_FailedTurnKeepsFilters ==
    (a_turn.n > 0 /\ a_turn.outcome \in {"error", "extraction_error"}) =>
        /\ a_turn.stored = a_turn.started_with
        /\ \A k \in Keys(a_turn.held) :
              Has(a_turn.left, k) /\ Get(a_turn.left, k) = Get(a_turn.held, k)

----------------------------------------------------------------------------
(* Both merges, applied twice to the same candidates *)

MergeKeys == {"Data_>=", "UF_Cliente", "Municipio_Cliente", "Cod_Cliente"}

\* the values a candidate gives a field: the one the contexts hold, another
\* one and, for the fields that take several values, a list of two
MergeValues(k) ==
    {ValueOld(k), ValueNew(k)} \cup
    CASE k = "UF_Cliente" -> {List(<<Str(<<"S","P">>), Str(<<"S","C">>)>>)}
      [] k = "Municipio_Cliente" -> {List(<<Str(<<"C","U","R","I","T","I","B","A">>), Str(<<"J","O","I","N","V","I","L","L","E">>)>>)}
      [] k = "Cod_Cliente" -> {List(<<Str(<<"2","2">>), Str(<<"1","9","1","1","4">>)>>)}
      [] OTHER -> {}

MergeContexts == {ContextOf(S) : S \in {T \in SUBSET MergeKeys : Cardinality(T) <= MaxCtx}}

MergeCandidates ==
    {d \in UNION {[1..m -> UNION {{Item(k, v) : v \in MergeValues(k)} : k \in MergeKeys}] :
                     m \in 0..MaxNew} :
        \A i, j \in DOMAIN d : i # j => d[i].k # d[j].k}

\* either merge on its inputs: the resolver's on candidates and a context, the
\* JSON manager's on the structure of the candidates and a context
InitMerge ==
    \/ /\ r_pc = "ready"
       /\ r_text = <<>> /\ r_max_date = NoDate /\ r_now = NoDate /\ r_strategy = "smart" /\ r_result = NoResult
       /\ r_new \in MergeCandidates
       /\ r_existing \in MergeContexts
       /\ JsonIdle /\ StoreIdle /\ AppIdle
    \/ /\ j_pc = "merge"
       /\ j_valid = Dataset /\ j_persist = filtros_iniciais /\ j_result = NoJsonResult
       /\ j_disabled = {}
       /\ j_ctx \in MergeContexts
       /\ j_json \in {Structure(d) \o i : d \in MergeCandidates, i \in Instructions}
       /\ ResolverIdle /\ StoreIdle /\ AppIdle

NextMerge == Resolve \/ ResolveAgain \/ AtualizarFiltros \/ AtualizarFiltrosDeNovo

SpecMerge == InitMerge /\ [][NextMerge]_vars

\* a field that takes one value only is given a value other than the one the
\* context holds for it
SingleValueConflict(json, context) ==
    \E f \in FieldsOf(json) :
        /\ ~_campo_permite_multiplos_valores(f.k)
        /\ Has(context, f.k) /\ Get(context, f.k) # f.v

\* C13: the merge is idempotent.  For candidates that do not conflict with the
\* context, merging them a second time into the context the first merge returned
\* returns that context again, for resolve_conflicts (no conflict detected by
\* the first call) and for _atualizar_filtros_do_json (no single-valued field
\* given another value; the fields that take lists included).
C13_MergeIdempotent ==
    /\ (r_pc = "again" /\ r_result.first.conflicts = <<>>) =>
            r_result.ctx = r_result.first.ctx
    /\ (j_pc = "merged_again" /\ ~SingleValueConflict(j_json, j_ctx)) =>
            j_result.ctx = j_result.first.ctx

\* a second merge of a list of two states into a context that held one state
C13_Witness ==
    /\ j_pc = "merged_again"
    /\ ~SingleValueConflict(j_json, j_ctx)
    /\ Has(j_ctx, "UF_Cliente") /\ Get(j_ctx, "UF_Cliente").t = "str"
    /\ \E f \in FieldsOf(j_json) : f.k = "UF_Cliente" /\ f.v.t = "list"
    /\ Has(j_result.first.ctx, "UF_Cliente")
    /\ Get(j_result.first.ctx, "UF_Cliente").t = "list"
    /\ Len(Get(j_result.first.ctx, "UF_Cliente").v) = 2
    /\ j_result.first.ctx # j_ctx

----------------------------------------------------------------------------
(* The validator on its own *)

MaxValores == 2

\* fields of the permissive list (data: by its lower case), fields of the
\* dataset and fields that are in neither
ValidarCampos ==
    {"Data_>=", "data", "cidade", "UF_Cliente", "Municipio_Cliente", "Cod_Cliente",
     "Cod_Vendedor", "uf_cliente"}

\* values of the dataset, parts and other cases of them, and values the
\* dataset does not know
ValidarValores ==
    {Str(<<"S","C">>), Str(<<"s","p">>), Str(<<"S">>), Str(<<"X","X">>), Str(<<>>), Str(<<"J","o","i","n","v","i","l","l","e">>),
     Str(<<"J","O","I","N","V","I","L","L","E"," ","S","C">>), Str(<<"2","2">>), Null}

InitValidar ==
    /\ j_pc = "validate"
    /\ j_valid = Dataset
    /\ j_ctx = EmptyDict /\ j_disabled = {} /\ j_persist = filtros_iniciais
    /\ j_result = NoJsonResult
    /\ \E campo \in ValidarCampos :
       \E valores \in UNION {[1..n -> ValidarValores] : n \in 0..MaxValores} :
            j_json = <<Item(campo, List(valores))>>
    /\ ResolverIdle /\ StoreIdle /\ AppIdle

\* manager.validar_valores(campo, valores, categoria), the list returned kept
\* under the field in j_result.ctx
ValidarValoresDoCampo ==
    /\ j_pc = "validate"
    /\ j_result' = [NoJsonResult EXCEPT !.ctx =
            <<Item(j_json[1].k, List(validar_valores(j_valid, j_json[1].k, j_json[1].v.v)))>>]
    /\ j_pc' = "validated"
    /\ UNCHANGED <<j_valid, j_ctx, j_json, j_disabled, j_persist, rvars, svars, avars>>

NextValidar == ValidarValoresDoCampo

SpecValidar == InitValidar /\ [][NextValidar]_vars

\* the field is accepted without validation: it is on the permissive list, in
\* any case of letters, or the dataset has no column for it
Permissive(campo) ==
    Lower(KeyText(campo)) \in
        {Lower(KeyText(c)) : c \in {"Data", "Data_>=", "Data_<", "periodo", "mes", "ano",
                                    "cidade", "estado", "municipio", "uf", "cliente",
                                    "produto", "linha", "segmento"}}
FailOpen(campo) == Permissive(campo) \/ ~Has(Dataset, campo)

\* C14: for a field of the permissive list or without an entry in
\* valores_validos, validar_valores returns the list of candidates as given,
\* the same values in the same order
C14_ValidatorFailOpen ==
    (j_pc = "validated" /\ FailOpen(j_json[1].k)) =>
        j_result.ctx[1].v.v = j_json[1].v.v

\* candidates the dataset does not know, for a field it has no column for
C14_Witness ==
    /\ j_pc = "validated"
    /\ j_json[1].k = "Cod_Vendedor"
    /\ Len(j_json[1].v.v) = MaxValores
    /\ j_json[1].v.v[1] = Str(<<"X","X">>) /\ j_json[1].v.v[2] = Null
    /\ j_result.ctx[1].v.v = j_json[1].v.v

\* the candidates, the values of the dataset and the values returned, as the
\* strings the validator compares
Candidatos == [i \in DOMAIN j_json[1].v.v |-> PyStr(j_json[1].v.v[i])]
Dominio == [i \in DOMAIN Get(Dataset, j_json[1].k) |-> PyStr(Get(Dataset, j_json[1].k)[i])]
Devolvidos == [i \in DOMAIN j_result.ctx[1].v.v |-> PyStr(j_result.ctx[1].v.v[i])]
Exatos == SelectSeq(Candidatos, LAMBDA v : InSeq(v, Dominio))
\* one string contains the other, letters compared without case
Contido(a, b) == Contains(Upper(a), Upper(b)) \/ Contains(Upper(b), Upper(a))

\* C15: for a field with an entry in valores_validos that is not permissive,
\* every value validar_valores returns is a value of the field in the dataset;
\* when a candidate matches exactly, the result is the exactly matching
\* candidates; otherwise the result holds at most one dataset value per
\* candidate, each containing or contained in a candidate.
C15_ValidatorOnIndexedFields ==
    (j_pc = "validated" /\ ~FailOpen(j_json[1].k)) =>
        /\ \A i \in DOMAIN Devolvidos : InSeq(Devolvidos[i], Dominio)
        /\ Exatos # <<>> => Devolvidos = Exatos
        /\ Exatos = <<>> =>
              /\ Len(Devolvidos) <= Len(Candidatos)
              /\ \A i \in DOMAIN Devolvidos :
                    \E n \in DOMAIN Candidatos : Contido(Devolvidos[i], Candidatos[n])

\* a candidate that matches exactly next to one that would match by containment
C15_Witness ==
    /\ j_pc = "validated"
    /\ j_json[1].k = "UF_Cliente"
    /\ j_json[1].v.v = <<Str(<<"s","p">>), Str(<<"S","C">>)>>
    /\ j_result.ctx[1].v.v = <<Str(<<"S","C">>)>>

----------------------------------------------------------------------------
(* Claims on the resolution inside a group *)

TemporalFields == {conflict_groups[1].fields[i] : i \in DOMAIN conflict_groups[1].fields}
RangeKeys == {"Data_>=", "Data_<", "Data_<="}
CityLevel == {"Municipio_Cliente", "cidade"}
StateLevel == {"UF_Cliente", "estado"}

\* C16: when the candidates hold a key of a date range, the context that
\* resolve_conflicts ('smart') returns has exactly the temporal keys of the
\* candidates, with the candidates' values: nothing temporal of the previous
\* context is left.
C16_RangeReplacesTemporalState ==
    (SmartDone /\ Keys(r_new) \cap RangeKeys # {}) =>
        \A k \in TemporalFields :
            /\ Has(r_result.ctx, k) <=> Has(r_new, k)
            /\ Has(r_new, k) => Get(r_result.ctx, k) = Get(r_new, k)

\* C17: when the existing context holds a city-level filter and the candidates
\* hold state-level filters only, the context that resolve_conflicts ('smart')
\* returns holds no state-level value that the existing context did not hold,
\* and the city-level filters are as they were.
C17_StateNotAddedOverCity ==
    (SmartDone /\ Keys(r_existing) \cap CityLevel # {}
        /\ r_new # <<>> /\ Keys(r_new) \subseteq StateLevel) =>
        /\ \A k \in StateLevel :
              Has(r_result.ctx, k) =>
                  Has(r_existing, k) /\ Get(r_result.ctx, k) = Get(r_existing, k)
        /\ \A k \in CityLevel :
              /\ Has(r_result.ctx, k) <=> Has(r_existing, k)
              /\ Has(r_existing, k) => Get(r_result.ctx, k) = Get(r_existing, k)

\* the fields of the client, product and representative groups that the
\* resolver ranks, two of each group
GroupKeySeq ==
    <<"Cod_Cliente", "Cod_Segmento_Cliente", "Cod_Linha_Produto", "Des_Linha_Produto",
      "Cod_Vendedor", "Cod_Regiao_Vendedor">>
GroupKeys == {GroupKeySeq[i] : i \in DOMAIN GroupKeySeq}

GroupContexts ==
    {SelectSeq([i \in DOMAIN GroupKeySeq |-> Item(GroupKeySeq[i], ValueOld(GroupKeySeq[i]))],
               LAMBDA e : e.k \in S) :
        S \in {T \in SUBSET GroupKeys : Cardinality(T) <= MaxCtx}}

GroupCandidates ==
    {d \in UNION {[1..m -> UNION {{Item(k, ValueOld(k)), Item(k, ValueNew(k))} : k \in GroupKeys}] :
                     m \in 0..MaxNew} :
        \A i, j \in DOMAIN d : i # j => d[i].k # d[j].k}

InitGroups ==
    /\ r_pc = "ready"
    /\ r_text = <<>> /\ r_max_date = NoDate /\ r_now = NoDate /\ r_strategy = "smart" /\ r_result = NoResult
    /\ r_new \in GroupCandidates
    /\ r_existing \in GroupContexts
    /\ JsonIdle /\ StoreIdle /\ AppIdle

SpecGroups == InitGroups /\ [][NextResolver]_vars

\* C18: in the client, product and representative groups, a candidate for a
\* field that the context holds with another value gives the field the
\* candidate's value in the context resolve_conflicts ('smart') returns,
\* whichever other fields of the group the context holds.
C18_SameFieldUpdated ==
    SmartDone =>
        \A k \in Keys(r_new) \cap Keys(r_existing) \cap GroupKeys :
            Get(r_new, k) # Get(r_existing, k) =>
                (Has(r_result.ctx, k) /\ Get(r_result.ctx, k) = Get(r_new, k))

----------------------------------------------------------------------------
(* The store fed from the SQL of the agent's queries *)

\* SQLFilterExtractor.category_mapping.get(column, FilterCategory.OTHER)
category_mapping(column) ==
    CASE column \in {<<"d","a","t","a">>, <<"d","a","t","a","_","i","n","i","c","i","o">>, <<"d","a","t","a","_","f","i","m">>, <<"p","e","r","i","o","d","o">>, <<"m","e","s">>, <<"a","n","o">>} -> "temporal"
      [] column \in {<<"u","f","_","c","l","i","e","n","t","e">>, <<"m","u","n","i","c","i","p","i","o","_","c","l","i","e","n","t","e">>, <<"c","i","d","a","d","e">>, <<"e","s","t","a","d","o">>} -> "geographic"
      [] column \in {<<"c","o","d","_","c","l","i","e","n","t","e">>, <<"c","o","d","_","s","e","g","m","e","n","t","o","_","c","l","i","e","n","t","e">>, <<"c","l","i","e","n","t","e">>} -> "client"
      [] column \in {<<"c","o","d","_","f","a","m","i","l","i","a","_","p","r","o","d","u","t","o">>, <<"c","o","d","_","g","r","u","p","o","_","p","r","o","d","u","t","o">>, <<"c","o","d","_","l","i","n","h","a","_","p","r","o","d","u","t","o">>,
                     <<"d","e","s","_","l","i","n","h","a","_","p","r","o","d","u","t","o">>, <<"p","r","o","d","u","t","o">>} -> "product"
      [] column \in {<<"c","o","d","_","v","e","n","d","e","d","o","r">>, <<"c","o","d","_","r","e","g","i","a","o","_","v","e","n","d","e","d","o","r">>, <<"v","e","n","d","e","d","o","r">>} -> "representative"
      [] OTHER -> "other"

\* the characters an SQL text is written with, and [^']
SqlAlphabet == Alphabet \cup {"(", ")", "=", ">", "<", "*"}
NotQuote == SqlAlphabet \ {"'"}
\* a literal of a pattern compiled with re.IGNORECASE
LitI(str) == [i \in DOMAIN str |-> [kind |-> "chr", set |-> {LowerChar(str[i]), UpperChar(str[i])}, sub |-> <<>>]]
\* \s*
AnySpaces == Opt(Plus(Spaces))
\* '([^']*)'
Quoted == Lit(<<"'">>) \o Opt(Plus(NotQuote)) \o Lit(<<"'">>)
\* (\w+)\s*OP\s*'([^']*)'
ComparisonPattern(operator) == Plus(WordChars) \o AnySpaces \o Lit(operator) \o AnySpaces \o Quoted

\* patterns of _parse_condition_token, in the order of the list
condition_patterns ==
    << [pattern |-> ComparisonPattern(<<"=">>), operator |-> <<"=">>],
       [pattern |-> ComparisonPattern(<<">">>), operator |-> <<">">>],
       [pattern |-> ComparisonPattern(<<"<">>), operator |-> <<"<">>],
       [pattern |-> ComparisonPattern(<<">","=">>), operator |-> <<">","=">>],
       [pattern |-> ComparisonPattern(<<"<","=">>), operator |-> <<"<","=">>],
       [pattern |-> Plus(WordChars) \o Plus(Spaces) \o LitI(<<"L","I","K","E">>) \o Plus(Spaces) \o Quoted,
        operator |-> <<"L","I","K","E">>] >>

RECURSIVE finditer(_, _, _)
\* re.finditer(pattern, string) from position `from` on, for a pattern
\* (\w+) ... '([^']*)': <<group(1), group(2)>> of the successive matches, each
\* found at the leftmost position where the pattern matches, the next one
\* searched from the end of the match
finditer(pattern, string, from) ==
    LET column(i) == SubSeq(string, i, Max(Ends(string, {i}, Plus(WordChars))) - 1)
        value(e) == SubSeq(string, Max({q \in 1..(e - 2) : string[q] = "'"}) + 1, e - 2)
        matched(i, e) == << <<column(i), value(e)>> >> \o finditer(pattern, string, e)
        at(i) == matched(i, Max(Ends(string, {i}, pattern)))
        first(starts) == IF starts = {} THEN <<>> ELSE at(Min(starts))
    IN first({i \in from..Len(string) : Ends(string, {i}, pattern) # {}})

\* the filters of one token that follows a WHERE keyword.  A token is given
\* as [text, tokens]: str(token).strip(), and the parsed statements of the
\* parentheses of the token that hold a SELECT.  Every pattern is searched in
\* the whole text of the token; the column is stored in lower case
_parse_condition_token(token) ==
    LET filter_def(match, operator) ==
            [key |-> KeyOf(Lower(match[1])), value |-> Str(match[2]),
             category |-> category_mapping(Lower(match[1])),
             operator |-> operator, source |-> "sql"]
        filters_of(matches, operator) == [n \in DOMAIN matches |-> filter_def(matches[n], operator)]
        RECURSIVE patterns(_)
        patterns(p) ==
            IF p > Len(condition_patterns) THEN <<>>
            ELSE filters_of(finditer(condition_patterns[p].pattern, token.text, 1), condition_patterns[p].operator)
                     \o patterns(p + 1)
    IN patterns(1)

RECURSIVE _extract_from_where_clause(_)
\* the filters of the WHERE clauses of a parsed statement.  A statement is
\* given as sqlparse groups it, [where, having]: the condition tokens that
\* follow its WHERE keyword inside the Where group (which ends before GROUP,
\* ORDER, HAVING or LIMIT), and the condition tokens that follow its HAVING
\* keyword.  The walk visits every token of the tree in document order: at a
\* WHERE keyword it parses each following sibling, and it descends into the
\* parentheses of every token, where it meets the WHERE keywords of the
\* subqueries
_extract_from_where_clause(parsed_query) ==
    LET RECURSIVE siblings(_)
        siblings(tokens) ==
            IF tokens = <<>> THEN <<>>
            ELSE _parse_condition_token(Head(tokens)) \o siblings(Tail(tokens))
        RECURSIVE statements(_)
        statements(subqueries) ==
            IF subqueries = <<>> THEN <<>>
            ELSE _extract_from_where_clause(Head(subqueries)) \o statements(Tail(subqueries))
        RECURSIVE descend(_)
        descend(tokens) ==
            IF tokens = <<>> THEN <<>>
            ELSE statements(Head(tokens).tokens) \o descend(Tail(tokens))
    IN siblings(parsed_query.where) \o descend(parsed_query.where \o parsed_query.having)

\* "Implementação similar ao WHERE": return []
_extract_from_having_clause(parsed_query) == <<>>

RECURSIVE extract_filters_from_sql(_)
RECURSIVE _extract_from_subqueries(_)
\* the filters of every parenthesis of the tree that holds a SELECT: the text
\* between the parentheses goes through extract_filters_from_sql, and the
\* search goes on inside the parenthesis
_extract_from_subqueries(parsed_query) ==
    LET RECURSIVE statements(_)
        statements(subqueries) ==
            IF subqueries = <<>> THEN <<>>
            ELSE extract_filters_from_sql(Head(subqueries)) \o _extract_from_subqueries(Head(subqueries))
                     \o statements(Tail(subqueries))
        RECURSIVE find_subqueries(_)
        find_subqueries(tokens) ==
            IF tokens = <<>> THEN <<>>
            ELSE statements(Head(tokens).tokens) \o find_subqueries(Tail(tokens))
    IN find_subqueries(parsed_query.where \o parsed_query.having)

\* the filters of a query, given as the statement sqlparse.parse(sql_query)[0]
\* makes of its text
extract_filters_from_sql(sql_query) ==
    _extract_from_where_clause(sql_query) \o _extract_from_having_clause(sql_query)
        \o _extract_from_subqueries(sql_query)

\* the token of the comparison  column op 'value'
Condition(column, op, value) == [text |-> column \o <<" ">> \o op \o <<" ", "'">> \o value \o <<"'">>, tokens |-> <<>>]
\* the statement  SELECT ... WHERE where[1] AND where[2] ...
Where(where) == [where |-> where, having |-> <<>>]

\* the queries of the agent: without WHERE, on a state, on another state and
\* a period, on another period
SqlQueries ==
    { Where(<<>>),
      Where(<<Condition(<<"U","F","_","C","l","i","e","n","t","e">>, <<"=">>, <<"S","C">>)>>),
      Where(<<Condition(<<"U","F","_","C","l","i","e","n","t","e">>, <<"=">>, <<"S","P">>), Condition(<<"D","a","t","a">>, <<">","=">>, <<"2","0","1","5","-","0","1","-","0","1">>)>>),
      Where(<<Condition(<<"D","a","t","a">>, <<">","=">>, <<"2","0","1","6","-","0","1","-","0","1">>)>>) }

\* self.sql_extractor of the manager: extract_filters_from_sql over the
\* queries of the agent
sql_extractor == [sql_query \in SqlQueries |-> extract_filters_from_sql(sql_query)]

RECURSIVE all_extracted_filters(_)
all_extracted_filters(sql_queries) ==
    IF sql_queries = <<>> THEN <<>>
    ELSE sql_extractor[Head(sql_queries)] \o all_extracted_filters(Tail(sql_queries))

\* the store after manager.process_sql_response(sql_queries)
process_sql_response(state, sql_queries) ==
    AddNewOrChanged(state, all_extracted_filters(sql_queries))

MaxQueries == 2
\* the calls of add_filter and process_sql_response in a session
MaxSqlCalls == 3

InitSql ==
    /\ s_state = NewFilterState
    /\ s_hash = NoHash
    /\ s_hist = <<>>
    /\ ResolverIdle /\ JsonIdle /\ AppIdle

\* filter_state.add_filter(filter_def), for a filter as the extractor builds it
AddFilter ==
    /\ Calls < MaxSqlCalls
    /\ \E q \in SqlQueries :
       \E i \in DOMAIN sql_extractor[q] :
        /\ s_state' = add_filter(s_state, sql_extractor[q][i])
        /\ s_hist' = Called("add_filter", filter_id(sql_extractor[q][i]))
    /\ UNCHANGED <<s_hash, rvars, jvars, avars>>

\* manager.process_sql_response(sql_queries)
ProcessSqlResponse ==
    /\ Calls < MaxSqlCalls
    /\ \E sql_queries \in UNION {[1..n -> SqlQueries] : n \in 1..MaxQueries} :
        /\ s_state' = process_sql_response(s_state, sql_queries)
        /\ s_hist' = Called("process_sql_response", sql_queries)
    /\ UNCHANGED <<s_hash, rvars, jvars, avars>>

NextSql == AddFilter \/ ProcessSqlResponse \/ ProcessUserQuery

SpecSql == InitSql /\ [][NextSql]_vars

\* the context keys of the stored filters, one per filter
ContextKeys(state) == [i \in DOMAIN state.filters |-> to_context_pair(state.filters[i].v).k]

\* C19: after any sequence of add_filter, process_sql_response and
\* process_user_query calls the store holds at most one filter per context key
\* (field name and operator suffix): a filter added for a key that has another
\* value replaces the filter of that key.
C19_OneFilterPerKey ==
    \A i, j \in DOMAIN ContextKeys(s_state) :
        i # j => ContextKeys(s_state)[i] # ContextKeys(s_state)[j]

\* the filters a query gives
FiltersOf(sql_query) ==
    {sql_extractor[sql_query][i] : i \in DOMAIN sql_extractor[sql_query]}

\* the value of a context key is x or a list that holds x
HoldsValue(context, k, x) ==
    /\ Has(context, k)
    /\ \/ Get(context, k) = x
       \/ Get(context, k).t = "list" /\ InSeq(x, Get(context, k).v)

\* C20: after process_sql_response on several queries of which two constrain
\* the same field with the same operator and different values, the context
\* given to the agent (to_context_dict) holds both values for that field.
C20_EarlierQueryValueKept ==
    (s_hist # <<>> /\ s_hist[1].op = "process_sql_response") =>
        \A a, b \in DOMAIN s_hist[1].id :
            a < b =>
                \A f \in FiltersOf(s_hist[1].id[a]), g \in FiltersOf(s_hist[1].id[b]) :
                    (to_context_pair(f).k = to_context_pair(g).k /\ f.value # g.value) =>
                        /\ HoldsValue(to_context_dict(s_state, TRUE), to_context_pair(f).k, f.value)
                        /\ HoldsValue(to_context_dict(s_state, TRUE), to_context_pair(g).k, g.value)

\* ---------------------------------------------------------------------------
\* The loss alert of the merge
\* ---------------------------------------------------------------------------

\* the field-keys an explicit instruction of the structure removes: the ones
\* remover_filtros names, every one under a clear instruction
NamedForRemoval(json_filtros) ==
    IF Truthy(GetOrNull(json_filtros, "clear_all_filters")) \/ Truthy(GetOrNull(json_filtros, "limpar_filtros"))
    THEN AllKeys
    ELSE IF Has(json_filtros, "remover_filtros") /\ Get(json_filtros, "remover_filtros").t = "list"
    THEN {k \in AllKeys : \E i \in DOMAIN Get(json_filtros, "remover_filtros").v :
                              Get(json_filtros, "remover_filtros").v[i].v = KeyText(k)}
    ELSE {}

\* C21: loss alert.  After _atualizar_filtros_do_json the change list holds an
\* ALERTA entry if and only if some field-key of the previous context is
\* absent from the returned context without having been named in an explicit
\* removal instruction.
C21_LossAlert ==
    j_pc = "merged" =>
        ((\E i \in DOMAIN j_result.mudancas : j_result.mudancas[i] = "ALERTA")
            <=> (Keys(j_ctx) \ Keys(j_result.ctx)) \ NamedForRemoval(j_json) # {})

\* ---------------------------------------------------------------------------
\* Relative periods of the detector
\* ---------------------------------------------------------------------------

\* the day n calendar months before date, the day of the month kept where the
\* month has it and its last day otherwise
MinusMonths(date, n) ==
    LET months == date.y * 12 + (date.m - 1) - n
        y == months \div 12
        m == (months % 12) + 1
    IN [y |-> y, m |-> m, d |-> Min({date.d, DaysInMonth(y, m)})]

\* the texts that ask for the last months, and the number they name
AsksLastMonths(text) == FirstStart(text, last_n_months_pattern) # 0
MonthsAsked(text) ==
    ParseInt(Group(text, last_n_months_pattern,
                   Lit(<<"ú","l","t","i","m","o">>) \o Opt(Lit(<<"s">>)) \o Plus(Spaces), Digits))

\* C22: relative period "last N months".  For the dataset's maximum date D and
\* a text "últimos N meses" the detector yields both bounds: Data_>= is D minus
\* N calendar months, or the first day of that month, and Data_< is D.
C22_LastMonthsBothBounds ==
    (r_pc # "text" /\ AsksLastMonths(r_text)) =>
        /\ Has(r_new, "Data_>=") /\ Has(r_new, "Data_<")
        /\ GetOrNull(r_new, "Data_>=") \in
              { Str(strftime(MinusMonths(r_max_date, MonthsAsked(r_text)))),
                Str(strftime([MinusMonths(r_max_date, MonthsAsked(r_text)) EXCEPT !.d = 1])) }
        /\ GetOrNull(r_new, "Data_<") = Str(strftime(r_max_date))

\* ---------------------------------------------------------------------------
\* The detector and the system clock
\* ---------------------------------------------------------------------------

\* texts with a relative period, and one without
ClockTexts ==
    { <<"ú","l","t","i","m","o","s"," ","3"," ","m","e","s","e","s">>, <<"v","e","n","d","a","s"," ","e","s","t","e"," ","a","n","o">>, <<"m","ê","s"," ","p","a","s","s","a","d","o">>, <<"c","l","i","e","n","t","e","s"," ","d","e"," ","s","p">> }
\* what the caller passes as max_date: the last day of the dataset, or nothing
\* (the parameter defaults to None)
ClockMaxDates == MaxDates \cup {NoMaxDate}
\* the system times of the runs
Clocks == { [y |-> 2016, m |-> 8, d |-> 31], [y |-> 2026, m |-> 11, d |-> 4], [y |-> 2027, m |-> 1, d |-> 10] }
Later(a, b) == <<a.y, a.m, a.d>> # <<b.y, b.m, b.d>> /\ (a.y > b.y \/ (a.y = b.y /\ (a.m > b.m \/ (a.m = b.m /\ a.d > b.d))))
ClockContexts == {c \in Contexts : Keys(c) \subseteq {"UF_Cliente"}}

InitClock ==
    /\ r_pc = "text"
    /\ r_text \in ClockTexts
    /\ r_max_date \in ClockMaxDates
    /\ r_now \in Clocks
    /\ r_new = EmptyDict
    /\ r_existing \in ClockContexts
    /\ r_strategy = "smart"
    /\ r_result = NoResult
    /\ s_state = StoreOf(r_existing).state /\ s_hash = StoreOf(r_existing).hash /\ s_hist = <<>>
    /\ JsonIdle /\ AppIdle

\* time passes between two runs
Tick ==
    /\ \E now \in Clocks : Later(now, r_now) /\ r_now' = now
    /\ UNCHANGED <<r_text, r_max_date, r_new, r_existing, r_strategy, r_result, r_pc, jvars, svars, avars>>

\* a second run of detector.detect_filters_from_text on the same text, with the
\* same max_date; what it returns is kept in r_result.ctx
DetectAgain ==
    /\ r_pc = "ready"
    /\ r_result' = [NoResult EXCEPT !.ctx = detect_filters_from_text(r_text, r_max_date)]
    /\ r_pc' = "again"
    /\ UNCHANGED <<r_text, r_max_date, r_now, r_new, r_existing, r_strategy, jvars, svars, avars>>

NextClock == Detect \/ Tick \/ DetectAgain \/ QueryStore

SpecClock == InitClock /\ [][NextClock]_vars

HasRelativePeriod(text) == FirstPattern(temporal_patterns, Lower(text)) > 12

\* C23: relative dates never depend on the wall clock.  For a text with a
\* relative temporal expression, two runs of detect_filters_from_text with the
\* same text and the same dataset date give the same filters whatever the
\* system time of each, and the store after process_user_query holds what any
\* run of the detector on that text gives.
C23_NoWallClock ==
    HasRelativePeriod(r_text) =>
        /\ r_pc = "again" => r_result.ctx = r_new
        /\ (r_pc # "text" /\ Len(s_hist) = 1) =>
              s_state = AddNewOrChanged(s_hist[1].before, FilterDefinitions(r_new, "user_query", TRUE))

\* ---------------------------------------------------------------------------
\* The filters in the prompt of the agent
\* ---------------------------------------------------------------------------

\* keys the persistent context can hold: of the detector, of the SQL extractor
\* (the column as the query has it, with the operator appended if not "=")
PromptKeys ==
    {"Data_>=", "Data_<", "Data_<=", "Data_>", "UF_Cliente", "Cod_Cliente",
     "Cod_Linha_Produto", "Cod_Vendedor", "uf_cliente"}
PromptValue(k) ==
    IF k \in RKeys THEN ValueOld(k)
    ELSE IF k \in {"Data_<=", "Data_>"} THEN ValueNew("Data_<")
    ELSE IF k = "uf_cliente" THEN ValueOld("UF_Cliente")
    ELSE Str(<<"7">>)
\* the contexts of at most MaxCtx filters, in every order of insertion
PromptContexts ==
    {<<>>} \cup UNION {{c \in [1..n -> {Item(k, PromptValue(k)) : k \in PromptKeys}] :
                            \A i, j \in 1..n : i # j => c[i].k # c[j].k} : n \in 1..MaxCtx}

InitPrompt ==
    /\ \E c \in PromptContexts : a_agent = update_persistent_context(PrincipalAgent(1), c)
    /\ a_last_context = EmptyDict /\ a_last_agent_id = 0 /\ a_disabled = {}
    /\ a_turn = NoTurn
    /\ ResolverIdle /\ JsonIdle /\ StoreIdle

\* agent.run(prompt)
RunAgent ==
    /\ a_turn.n = 0
    /\ a_turn' = [NoTurn EXCEPT !.n = 1, !.outcome = "done",
                                !.ran_with = a_agent.persistent_context,
                                !.held = a_agent.persistent_context,
                                !.left = a_agent.persistent_context,
                                !.message = run(a_agent, UserPrompt)]
    /\ UNCHANGED <<a_agent, a_last_context, a_last_agent_id, a_disabled, rvars, jvars, svars>>

NextPrompt == RunAgent

SpecPrompt == InitPrompt /\ [][NextPrompt]_vars

\* the lines of the block that list the filter of the key
LinesWith(message, k) ==
    {i \in 3..Len(message) : Contains(message[i], KeyText(k) \o <<":", " ">>)}

\* C24: prompt injection of the context.  run appends a block to the outgoing
\* message if and only if persistent_context is non-empty; the block starts
\* with the header "FILTROS ATIVOS NA CONVERSA:" and every filter key of the
\* context, Data_<=, Data_> and the keys of the SQL extractor included, is
\* listed on exactly one line of the block.
C24_EveryFilterInPrompt ==
    (a_turn.n > 0 /\ a_turn.message # <<>>) =>
        /\ a_turn.message[1] = UserPrompt
        /\ (Len(a_turn.message) > 1) <=> (a_turn.ran_with # EmptyDict)
        /\ Len(a_turn.message) > 1 =>
              /\ a_turn.message[3] = <<"F","I","L","T","R","O","S"," ","A","T","I","V","O","S"," ","N","A"," ","C","O","N","V","E","R","S","A",":">>
              /\ \A k \in Keys(a_turn.ran_with) : Cardinality(LinesWith(a_turn.message, k)) = 1

\* C25: the SQL debug trace is consumed once.  The sql_queries the filters of a
\* turn are extracted from are exactly the queries that turn's agent call
\* executed, and when the agent call of a turn starts agent.debug_info holds no
\* sql_queries of an earlier turn, whether that turn succeeded or raised.
C25_DebugTraceConsumedOnce ==
    a_turn.n > 0 =>
        /\ a_turn.found = <<>>
        /\ a_turn.outcome # "error" => a_turn.sql_queries = a_turn.executed

\* ---------------------------------------------------------------------------
\* The round trip of the synchroniser
\* ---------------------------------------------------------------------------

\* sync_from_agent_context has just been given what sync_to_agent_context returned
RoundTrip ==
    /\ Len(s_hist) = 2
    /\ s_hist[2].op = "sync_to_agent_context"
    /\ s_hist[1].op = "sync_from_agent_context"

\* C26: push/pull round trip.  For every reachable FilterState, states with
\* disabled filters included, sync_to_agent_context followed by
\* sync_from_agent_context on the mapping returned leaves the filters and the
\* disabled set as they were and returns False.
C26_PushPullRoundTrip ==
    RoundTrip =>
        /\ s_state = s_hist[2].before
        /\ s_hist[1].id = FALSE

\* ---------------------------------------------------------------------------
\* Disabled identifiers applied to a context
\* ---------------------------------------------------------------------------

\* the identifier of the filter of an entry of a context
EntryId(e) == filter_id(FilterDefinitions(<<e>>, "agent_context", FALSE)[1])
EntryIds(context) == {EntryId(context[i]) : i \in DOMAIN context}

\* manager.apply_disabled_filters_to_context(context, disabled_ids); the
\* arguments and the context returned are kept as the id of the call
ApplyDisabledFiltersToContext ==
    /\ Calls < MaxCalls
    /\ \E context \in AgentContexts :
        \E ids \in SomeOf(EntryIds(context) \cup {<<"U","F","_","C","l","i","e","n","t","e",":","R","S">>}) :
            \E applied \in {apply_disabled_filters_to_context(s_state, context, ids)} :
                /\ s_state' = applied.state
                /\ s_hist' = Called("apply_disabled_filters_to_context",
                                    [context |-> context, disabled_ids |-> ids, returned |-> applied.context])
    /\ UNCHANGED <<s_hash, rvars, jvars, avars>>

NextApply == SyncWithAgentContext \/ ApplyDisabledFiltersToContext

SpecApply == InitStore /\ [][NextApply]_vars

\* C27: applying disabled identifiers before sending.  The call returns exactly
\* the entries of the given context whose filter identifier is not in
\* disabled_ids, so that a later call with an identifier no longer in
\* disabled_ids returns that entry again.
C27_ExactlyTheEnabledEntries ==
    (s_hist # <<>> /\ s_hist[1].op = "apply_disabled_filters_to_context") =>
        s_hist[1].id.returned =
            SelectSeq(s_hist[1].id.context, LAMBDA e : EntryId(e) \notin s_hist[1].id.disabled_ids)

\* ---------------------------------------------------------------------------
\* The extractor on the statements of the agent
\* ---------------------------------------------------------------------------

\* A condition of a statement is written  column op 'value'  ("cmp"),
\* LOWER(column) op 'value'  ("lower")  or  column IN (SELECT ... WHERE ...)
\* ("in", with the conditions of the WHERE of the subquery)
Cmp(column, op, value) == [kind |-> "cmp", column |-> column, op |-> op, value |-> value, where |-> <<>>]
LowerCmp(column, op, value) == [kind |-> "lower", column |-> column, op |-> op, value |-> value, where |-> <<>>]
InSelect(column, where) == [kind |-> "in", column |-> column, op |-> <<>>, value |-> <<>>, where |-> where]

RECURSIVE TokenOf(_)
\* the token sqlparse makes of a condition: its text, and the statement of its
\* parenthesis when the parenthesis holds a SELECT
TokenOf(condition) ==
    LET RECURSIVE texts(_)
        texts(tokens) ==
            IF Len(tokens) = 1 THEN tokens[1].text
            ELSE tokens[1].text \o <<" ","A","N","D"," ">> \o texts(Tail(tokens))
        select(tokens) ==
            [text |-> condition.column \o <<" ","I","N"," ","(","S","E","L","E","C","T"," ","c","o","d","_","c","l","i","e","n","t","e"," ","F","R","O","M"," ","t"," ","W","H","E","R","E"," ">> \o texts(tokens) \o <<")">>,
             tokens |-> <<Where(tokens)>>]
    IN CASE condition.kind = "cmp" -> Condition(condition.column, condition.op, condition.value)
         [] condition.kind = "lower" ->
                Condition(<<"L","O","W","E","R","(">> \o condition.column \o <<")">>, condition.op, condition.value)
         [] OTHER -> select([i \in DOMAIN condition.where |-> TokenOf(condition.where[i])])

\* sqlparse.parse(sql_query)[0] for the statement
\* SELECT ... WHERE where[1] AND ... GROUP BY ... HAVING having[1] AND ...
Parsed(statement) ==
    [where |-> [i \in DOMAIN statement.where |-> TokenOf(statement.where[i])],
     having |-> [i \in DOMAIN statement.having |-> TokenOf(statement.having[i])]]

\* the conditions the statements are made of
SqlConditions ==
    { Cmp(<<"u","f","_","c","l","i","e","n","t","e">>, <<"=">>, <<"S","C">>),
      LowerCmp(<<"u","f","_","c","l","i","e","n","t","e">>, <<"=">>, <<"s","c">>),
      Cmp(<<"D","a","t","a">>, <<">">>, <<"2","0","1","5">>),
      Cmp(<<"v","a","l","o","r">>, <<"<","=">>, <<"1","0">>),
      InSelect(<<"c","o","d","_","c","l","i","e","n","t","e">>, <<Cmp(<<"u","f","_","c","l","i","e","n","t","e">>, <<"=">>, <<"S","C">>)>>),
      InSelect(<<"c","o","d","_","c","l","i","e","n","t","e">>, <<Cmp(<<"v","a","l","o","r">>, <<"<","=">>, <<"1","0">>), LowerCmp(<<"u","f","_","c","l","i","e","n","t","e">>, <<"=">>, <<"s","c">>)>>) }
\* the statements the agent runs: at most two conditions after WHERE, at most
\* one after HAVING
SqlStatements ==
    { [where |-> where, having |-> having] :
        where \in {<<>>} \cup { <<c>> : c \in SqlConditions } \cup { <<c, d>> : c, d \in SqlConditions },
        having \in {<<>>, <<Cmp(<<"v","a","l","o","r">>, <<">">>, <<"1","0">>)>>, <<Cmp(<<"u","f","_","c","l","i","e","n","t","e">>, <<"=">>, <<"S","C">>)>>} }

\* the agent has run one statement, kept in its debug trace
InitExtract ==
    /\ s_state = NewFilterState
    /\ s_hash = NoHash
    /\ s_hist = <<>>
    /\ \E statement \in SqlStatements :
        a_agent = [id |-> 1, persistent_context |-> EmptyDict, debug_info |-> <<statement>>]
    /\ a_last_context = EmptyDict /\ a_last_agent_id = 0 /\ a_disabled = {}
    /\ a_turn = NoTurn
    /\ ResolverIdle /\ JsonIdle

\* sql_extractor.extract_filters_from_sql(query) on the statement of the trace
ExtractFiltersFromSql ==
    /\ s_hist = <<>>
    /\ s_hist' = Called("extract_filters_from_sql",
                        [sql_query |-> a_agent.debug_info[1],
                         returned |-> extract_filters_from_sql(Parsed(a_agent.debug_info[1]))])
    /\ UNCHANGED <<s_state, s_hash, rvars, jvars, avars>>

NextExtract == ExtractFiltersFromSql

SpecExtract == InitExtract /\ [][NextExtract]_vars

\* the candidate of the comparison a condition writes
CandidateOf(condition) ==
    [key |-> KeyOf(Lower(condition.column)), value |-> Str(condition.value),
     category |-> category_mapping(Lower(condition.column)),
     operator |-> condition.op, source |-> "sql"]

RECURSIVE ComparisonsOf(_)
\* the comparisons of a sequence of conditions, the ones of the subqueries included
ComparisonsOf(conditions) ==
    IF conditions = <<>> THEN <<>>
    ELSE (IF Head(conditions).kind = "in" THEN ComparisonsOf(Head(conditions).where)
          ELSE <<Head(conditions)>>) \o ComparisonsOf(Tail(conditions))

\* how many times a sequence holds x
Count(seq, x) == Cardinality({i \in DOMAIN seq : seq[i] = x})

Extracted == s_hist # <<>> /\ s_hist[1].op = "extract_filters_from_sql"

\* how many of the comparisons of the conditions have the candidate x
Written(conditions, x) ==
    Cardinality({i \in DOMAIN ComparisonsOf(conditions) : CandidateOf(ComparisonsOf(conditions)[i]) = x})

\* C28: for a statement SELECT ... WHERE LOWER(c1) = 'v1' AND c2 > 'v2' the
\* extractor returns exactly the two candidates (c1, '=', 'v1') and
\* (c2, '>', 'v2'), each with the category of the column table; and for any
\* statement without HAVING every comparison of its WHERE, also one inside a
\* parenthesised subquery, gives exactly one candidate and nothing else is returned.
C28_OneCandidatePerComparison ==
    (Extracted /\ s_hist[1].id.sql_query.having = <<>>) =>
        /\ s_hist[1].id.sql_query.where = <<LowerCmp(<<"u","f","_","c","l","i","e","n","t","e">>, <<"=">>, <<"s","c">>), Cmp(<<"D","a","t","a">>, <<">">>, <<"2","0","1","5">>)>> =>
               s_hist[1].id.returned =
                   << [key |-> "uf_cliente", value |-> Str(<<"s","c">>), category |-> "geographic", operator |-> <<"=">>, source |-> "sql"],
                      [key |-> "data", value |-> Str(<<"2","0","1","5">>), category |-> "temporal", operator |-> <<">">>, source |-> "sql"] >>
        /\ \A i \in DOMAIN s_hist[1].id.returned :
               Count(s_hist[1].id.returned, s_hist[1].id.returned[i])
                   = Written(s_hist[1].id.sql_query.where, s_hist[1].id.returned[i])
        /\ \A i \in DOMAIN ComparisonsOf(s_hist[1].id.sql_query.where) :
               Count(s_hist[1].id.returned, CandidateOf(ComparisonsOf(s_hist[1].id.sql_query.where)[i]))
                   = Written(s_hist[1].id.sql_query.where, CandidateOf(ComparisonsOf(s_hist[1].id.sql_query.where)[i]))

\* C29: for a statement whose HAVING clause holds a comparison column OP
\* 'value', the extractor returns the candidate of that comparison, as it
\* does for a comparison of WHERE.
C29_HavingExtracted ==
    Extracted =>
        \A i \in DOMAIN ComparisonsOf(s_hist[1].id.sql_query.having) :
            InSeq(CandidateOf(ComparisonsOf(s_hist[1].id.sql_query.having)[i]), s_hist[1].id.returned)

\* ---------------------------------------------------------------------------
\* Two sessions served by one process
\* ---------------------------------------------------------------------------

\* In this part s_state is the module global _global_filter_manager (the
\* filter_state of the manager it names) and <<j_valid, j_persist>> is the
\* module global _global_json_filter_manager (valores_validos and
\* filtros_persistentes of the manager it names); Null is None.

\* get_unified_filter_manager(): the manager after the call, which is also
\* what the global names after it
get_unified_filter_manager(_global_filter_manager) ==
    IF _global_filter_manager = Null THEN NewFilterState ELSE _global_filter_manager

\* get_json_filter_manager(df_dataset), df_dataset given by the index
\* _gerar_valores_validos builds from it
get_json_filter_manager(_global_json_filter_manager, df_dataset) ==
    IF _global_json_filter_manager = Null
    THEN [valores_validos |-> df_dataset, filtros_persistentes |-> filtros_iniciais]
    ELSE _global_json_filter_manager

\* JSONFilterManager._determinar_categoria(campo), "none" for None
_determinar_categoria(campo) ==
    LET category(campo_lower) ==
            IF campo_lower \in {<<"d","a","t","a">>, <<"d","a","t","a","_",">","=">>, <<"d","a","t","a","_","<">>, <<"p","e","r","i","o","d","o">>, <<"m","e","s">>, <<"a","n","o">>} THEN "periodo"
            ELSE IF campo_lower \in {<<"u","f","_","c","l","i","e","n","t","e">>, <<"m","u","n","i","c","i","p","i","o","_","c","l","i","e","n","t","e">>, <<"c","i","d","a","d","e">>, <<"e","s","t","a","d","o">>} THEN "regiao"
            ELSE IF campo_lower \in {<<"c","o","d","_","c","l","i","e","n","t","e">>, <<"c","o","d","_","s","e","g","m","e","n","t","o","_","c","l","i","e","n","t","e">>, <<"c","l","i","e","n","t","e">>} THEN "cliente"
            ELSE IF \E x \in {<<"p","r","o","d","u","t","o">>, <<"f","a","m","i","l","i","a">>, <<"g","r","u","p","o">>, <<"l","i","n","h","a">>} : Contains(campo_lower, x) THEN "produto"
            ELSE IF \E x \in {<<"v","e","n","d","e","d","o","r">>, <<"r","e","p","r","e","s","e","n","t","a","n","t","e">>, <<"r","e","g","i","a","o","_","v","e","n","d","e","d","o","r">>} : Contains(campo_lower, x) THEN "representante"
            ELSE "none"
    IN category(Lower(KeyText(campo)))

\* filtros_persistentes after manager.sincronizar_com_contexto_agente(contexto_agente)
sincronizar_com_contexto_agente(persistentes, contexto_agente) ==
    LET with_category(p, categoria) == IF Has(p, categoria) THEN p ELSE Put(p, categoria, Dict(EmptyDict))
        set(p, categoria, campo, valor) ==
            IF GetOrNull(Get(p, categoria).v, campo) # valor
            THEN Put(p, categoria, Dict(Put(Get(p, categoria).v, campo, valor)))
            ELSE p
        field(p, categoria, campo, valor) ==
            IF categoria # "none" /\ valor # Null
            THEN set(with_category(p, categoria), categoria, campo, valor)
            ELSE p
        RECURSIVE items(_, _)
        items(p, i) ==
            IF i > Len(contexto_agente) THEN p
            ELSE items(field(p, _determinar_categoria(contexto_agente[i].k), contexto_agente[i].k, contexto_agente[i].v), i + 1)
    IN items(persistentes, 1)

\* the sessions the process serves
Sessions == {"A", "B"}
\* the calls of the two sessions together
MaxSessionCalls == 3

\* the module global _global_json_filter_manager
JsonGlobal == IF j_persist = Null THEN Null ELSE [valores_validos |-> j_valid, filtros_persistentes |-> j_persist]

\* a call of a session, with the JSON global before it
SessionCalled(op, session) == Called(op, [session |-> session, json |-> JsonGlobal])

\* the process has started: both globals are None
InitSessions ==
    /\ s_state = Null
    /\ s_hash = NoHash
    /\ s_hist = <<>>
    /\ j_valid = Null /\ j_persist = Null
    /\ j_ctx = EmptyDict /\ j_json = EmptyDict /\ j_disabled = {}
    /\ j_result = NoJsonResult /\ j_pc = "idle"
    /\ ResolverIdle /\ AppIdle

\* a session: get_unified_filter_manager().process_user_query(user_query, max_date)
SessionProcessUserQuery ==
    /\ Calls < MaxSessionCalls
    /\ \E session \in Sessions, user_query \in SessionTexts, max_date \in SessionDates :
        /\ s_state' = process_user_query(get_unified_filter_manager(s_state), user_query, max_date)
        /\ s_hist' = SessionCalled("process_user_query", session)
    /\ UNCHANGED <<s_hash, rvars, jvars, avars>>

\* a session: get_unified_filter_manager().toggle_filter(filter_id, enabled)
SessionToggleFilter ==
    /\ Calls < MaxSessionCalls
    /\ \E session \in Sessions, enabled \in BOOLEAN :
       \E id \in Keys(get_unified_filter_manager(s_state).filters) :
        /\ s_state' = toggle_filter(get_unified_filter_manager(s_state), id, enabled)
        /\ s_hist' = SessionCalled("toggle_filter", session)
    /\ UNCHANGED <<s_hash, rvars, jvars, avars>>

\* a session: get_unified_filter_manager().clear_all_filters()
SessionClearAllFilters ==
    /\ Calls < MaxSessionCalls
    /\ \E session \in Sessions :
        /\ s_state' = clear_all_filters
        /\ s_hist' = SessionCalled("clear_all_filters", session)
    /\ UNCHANGED <<s_hash, rvars, jvars, avars>>

\* a session: get_json_filter_manager(df).sincronizar_com_contexto_agente(user_context)
SessionSincronizar ==
    /\ Calls < MaxSessionCalls
    /\ \E session \in Sessions, user_context \in AgentContexts :
       \E manager \in {get_json_filter_manager(JsonGlobal, Dataset)} :
        /\ j_valid' = manager.valores_validos
        /\ j_persist' = sincronizar_com_contexto_agente(manager.filtros_persistentes, user_context)
        /\ s_hist' = SessionCalled("sincronizar_com_contexto_agente", session)
    /\ UNCHANGED <<s_state, s_hash, j_ctx, j_json, j_disabled, j_result, j_pc, rvars, avars>>

\* a session presses 'Limpar': reset_json_filter_manager()
ResetJsonFilterManager ==
    /\ Calls < MaxSessionCalls
    /\ \E session \in Sessions :
        /\ j_valid' = Null /\ j_persist' = Null
        /\ s_hist' = SessionCalled("reset_json_filter_manager", session)
    /\ UNCHANGED <<s_state, s_hash, j_ctx, j_json, j_disabled, j_result, j_pc, rvars, avars>>

NextSessions ==
    \/ SessionProcessUserQuery \/ SessionToggleFilter \/ SessionClearAllFilters
    \/ SessionSincronizar \/ ResetJsonFilterManager

SpecSessions == InitSessions /\ [][NextSessions]_vars

\* what a session reads from the managers the two getters give it: the
\* filters and the disabled set of the store, the persistent filters and the
\* domain index of the JSON manager.  The getters take no session.
ObservedBy(session, unified, json) ==
    [filters |-> get_unified_filter_manager(unified).filters,
     disabled |-> get_unified_filter_manager(unified).disabled,
     filtros_persistentes |-> get_json_filter_manager(json, Dataset).filtros_persistentes,
     valores_validos |-> get_json_filter_manager(json, Dataset).valores_validos]

\* C30: session isolation.  After an operation a session performed through the
\* manager it got from get_unified_filter_manager or get_json_filter_manager
\* (adding, disabling, clearing filters, reset_json_filter_manager), every
\* other session observes the filters, the disabled set and the domain index
\* it observed before the operation.
C30_SessionIsolation ==
    s_hist # <<>> =>
        \A other \in Sessions \ {s_hist[1].id.session} :
            ObservedBy(other, s_state, JsonGlobal) = ObservedBy(other, s_hist[1].before, s_hist[1].id.json)

\* ---------------------------------------------------------------------------
\* The store and the resolver on one query
\* ---------------------------------------------------------------------------

\* the filters the detector finds in the text of the turn
DetectedInTurn == detect_filters_from_text(r_text, r_max_date)
\* what resolve_conflicts computes for them and the context before the call
ResolvedInTurn == resolve_conflicts(DetectedInTurn, to_context_dict(s_hist[1].before, TRUE), "smart").ctx

\* C31: after process_user_query returns for a query that is not a clear
\* command, the context of the store (to_context_dict()) equals the context
\* resolve_conflicts computed for the detected filters and the context before
\* the call; a detected filter the resolver did not apply is not in the store.
C31_StoreEqualsResolved ==
    (QueryDone /\ DetectedInTurn # EmptyDict /\ ~Truthy(GetOrNull(DetectedInTurn, "clear_all_filters"))) =>
        /\ DictEq(to_context_dict(s_state, TRUE), ResolvedInTurn)
        /\ \A i \in DOMAIN DetectedInTurn :
               ~(Has(ResolvedInTurn, DetectedInTurn[i].k) /\ Get(ResolvedInTurn, DetectedInTurn[i].k) = DetectedInTurn[i].v) =>
                   ~Has(s_state.filters, FilterId(DetectedInTurn[i].k, DetectedInTurn[i].v))

\* ---------------------------------------------------------------------------
\* The explicit removal of the merge
\* ---------------------------------------------------------------------------

\* the keys remover_filtros of a structure names
NamedKeys(json_filtros) ==
    {k \in AllKeys : \E i \in DOMAIN Get(json_filtros, "remover_filtros").v :
                        Get(json_filtros, "remover_filtros").v[i].v = KeyText(k)}

\* the context the merge of the structure gives when it names no removal
MergedOnly == _atualizar_filtros_do_json(j_valid, j_persist, Pop(j_json, "remover_filtros"), j_ctx).ctx

RemovalDone == j_pc = "merged" /\ Truthy(GetOrNull(j_json, "remover_filtros"))

\* C32: when the structure carries remover_filtros, the context
\* _atualizar_filtros_do_json returns is the merged context without the named
\* keys: the named keys that are present are removed, every other key keeps
\* its value, a name that is not in the context is ignored, and a field both
\* set and named in the same structure is absent from the result.
C32_ExplicitRemoval ==
    RemovalDone =>
        /\ Keys(j_result.ctx) = Keys(MergedOnly) \ NamedKeys(j_json)
        /\ \A k \in Keys(j_result.ctx) : Get(j_result.ctx, k) = Get(MergedOnly, k)

\* a structure set UF_Cliente and named it and Data_< for removal, for a
\* context that held UF_Cliente and another filter and no Data_<: UF_Cliente
\* is gone and the other filter is kept
C32_Witness ==
    /\ RemovalDone
    /\ Has(j_ctx, "UF_Cliente") /\ ~Has(j_ctx, "Data_<") /\ Has(j_ctx, "Data_>=")
    /\ Has(j_json, "regiao") /\ Has(Get(j_json, "regiao").v, "UF_Cliente")
    /\ Get(Get(j_json, "regiao").v, "UF_Cliente") = ValueNew("UF_Cliente")
    /\ ~Has(j_result.ctx, "UF_Cliente")
    /\ Has(j_result.ctx, "Data_>=")

\* ---------------------------------------------------------------------------
\* A month or a range of months, lowered to a range of dates and lifted back
\* ---------------------------------------------------------------------------

\* f"{n:02d}"
TwoDigits(n) == zfill(IntStr(n), 2)

\* str(d) of a dict of strings
DictStr(d) ==
    LET RECURSIVE items(_)
        items(i) ==
            IF i > Len(d) THEN <<>>
            ELSE <<"'">> \o KeyText(d[i].k) \o <<"'",":"," ","'">> \o d[i].v.v \o <<"'">>
                 \o (IF i < Len(d) THEN <<","," ">> ELSE <<>>) \o items(i + 1)
    IN <<"{">> \o items(1) \o <<"}">>

\* the first day of the month that follows month m of year y, as
\* f"{end_year}-{end_month:02d}-01"
first_of_next_month(y, m) ==
    IF m = 12 THEN IntStr(y + 1) \o <<"-","0","1","-","0","1">>
    ELSE IntStr(y) \o <<"-">> \o TwoDigits(m + 1) \o <<"-","0","1">>

\* _convert_sql_json_to_context(sql_filters), for a structure whose months and
\* years are strings; the keys of the structure are texts
_convert_sql_json_to_context(sql_filters) ==
    LET range(start_ano, start_mes, end_ano, end_mes) ==
            << Item("Data_>=", Str(IntStr(start_ano) \o <<"-">> \o TwoDigits(start_mes) \o <<"-","0","1">>)),
               Item("Data_<", Str(first_of_next_month(end_ano, end_mes))) >>
        \* int(x) raises ValueError for a string that is not of digits
        month(mes, ano) ==
            IF isdigit(mes.v) /\ isdigit(ano.v)
            THEN range(ParseInt(ano.v), ParseInt(mes.v), ParseInt(ano.v), ParseInt(mes.v))
            ELSE <<Item("periodo", Str(mes.v \o <<"/">> \o ano.v))>>
        interval(inicio, fim) ==
            IF inicio.t # "dict" \/ fim.t # "dict" THEN <<>>
            ELSE IF ~(\A x \in {GetOrNull(inicio.v, "mes"), GetOrNull(inicio.v, "ano"),
                               GetOrNull(fim.v, "mes"), GetOrNull(fim.v, "ano")} : Truthy(x))
            THEN <<>>
            ELSE IF \A x \in {Get(inicio.v, "mes"), Get(inicio.v, "ano"), Get(fim.v, "mes"), Get(fim.v, "ano")} : isdigit(x.v)
            THEN range(ParseInt(Get(inicio.v, "ano").v), ParseInt(Get(inicio.v, "mes").v),
                       ParseInt(Get(fim.v, "ano").v), ParseInt(Get(fim.v, "mes").v))
            ELSE <<Item("periodo", Str(DictStr(inicio.v) \o <<" ","a","t","é"," ">> \o DictStr(fim.v)))>>
        periodo(fields) ==
            Update(IF Has(fields, "mes") /\ Has(fields, "ano") THEN month(Get(fields, "mes"), Get(fields, "ano"))
                   ELSE IF Has(fields, "inicio") /\ Has(fields, "fim") THEN interval(Get(fields, "inicio"), Get(fields, "fim"))
                   ELSE <<>>,
                   SelectSeq(fields, LAMBDA e : e.k \in {"Data_>=", "Data_<", "Data_<=", "Data_>", "Data"}))
        others(fields) == SelectSeq(fields, LAMBDA e : e.v # Null /\ e.v # EmptyList /\ e.v # EmptyStr)
        RECURSIVE categories(_, _)
        categories(i, context) ==
            IF i > Len(sql_filters) THEN context
            ELSE categories(i + 1,
                    IF sql_filters[i].v.t # "dict" \/ sql_filters[i].v.v = <<>> THEN context
                    ELSE IF sql_filters[i].k = "periodo" THEN Update(context, periodo(sql_filters[i].v.v))
                    ELSE Update(context, others(sql_filters[i].v.v)))
    IN categories(1, EmptyDict)

\* datetime.strptime(s, '%Y-%m-%d'); NoMaxDate when it raises ValueError
strptime(s) ==
    LET dashes == {i \in DOMAIN s : s[i] = "-"}
        date(y, m, d) ==
            IF /\ isdigit(y) /\ isdigit(m) /\ isdigit(d)
               /\ Len(y) = 4 /\ Len(m) <= 2 /\ Len(d) <= 2
               /\ ParseInt(m) \in 1..12
               /\ ParseInt(d) \in 1..DaysInMonth(ParseInt(y), ParseInt(m))
            THEN [y |-> ParseInt(y), m |-> ParseInt(m), d |-> ParseInt(d)]
            ELSE NoMaxDate
        split(a, b) == date(SubSeq(s, 1, a - 1), SubSeq(s, a + 1, b - 1), SubSeq(s, b + 1, Len(s)))
    IN IF Cardinality(dashes) # 2 THEN NoMaxDate ELSE split(Min(dashes), Max(dashes))

\* _convert_range_to_structured(data_inicio, data_fim): the structure, Null for None
_convert_range_to_structured(data_inicio, data_fim) ==
    LET month_year(mes, ano) == Dict(<<Item("mes", Str(TwoDigits(mes))), Item("ano", Str(IntStr(ano)))>>)
        structured(start, end) ==
            IF start = NoMaxDate \/ end = NoMaxDate THEN Null
            ELSE IF start.d = 1 /\ end.d = 1 /\ start.y = end.y /\ end.m = start.m + 1
            THEN month_year(start.m, start.y)
            ELSE IF start.d = 1 /\ end.d = 1 /\ start.y = end.y /\ end.m > start.m
            THEN Dict(<<Item("inicio", month_year(start.m, start.y)),
                        Item("fim", month_year(end.m - 1, start.y))>>)
            ELSE IF start.m = 1 /\ start.d = 1 /\ end.m = 1 /\ end.d = 1 /\ end.y = start.y + 1
            THEN Dict(<<Item("ano", Str(IntStr(start.y)))>>)
            ELSE Null
    IN structured(strptime(data_inicio), strptime(data_fim))

\* the years and the months a structure is written with: a month as the
\* model writes it, with or without a leading zero, or by a name
RangeYears == {<<"2","0","1","5">>, <<"2","0","1","6">>}
MonthTexts == {IntStr(m) : m \in 1..12} \cup {TwoDigits(m) : m \in 1..9} \cup {<<"m","a","r">>}
MonthOf(ano, mes) == <<Item("mes", Str(mes)), Item("ano", Str(ano))>>
PeriodStructures ==
    { <<Item("periodo", Dict(MonthOf(ano, mes)))>> : ano \in RangeYears, mes \in MonthTexts }
    \cup { <<Item("periodo", Dict(<<Item("inicio", Dict(MonthOf(ano, IntStr(m1)))), Item("fim", Dict(MonthOf(ano, IntStr(m2))))>>))>> :
             ano \in RangeYears, m1 \in 1..12, m2 \in 1..12 }

\* the structure extracted from the SQL of a turn
InitRange ==
    /\ j_json \in PeriodStructures
    /\ j_pc = "lower"
    /\ j_valid = EmptyDict /\ j_ctx = EmptyDict /\ j_disabled = {}
    /\ j_result = NoJsonResult /\ j_persist = filtros_iniciais
    /\ ResolverIdle /\ StoreIdle /\ AppIdle

\* sql_context = _convert_sql_json_to_context(sql_filters)
ConvertSqlJsonToContext ==
    /\ j_pc = "lower"
    /\ j_result' = [NoJsonResult EXCEPT !.ctx = _convert_sql_json_to_context(j_json)]
    /\ j_pc' = "lowered"
    /\ UNCHANGED <<j_valid, j_ctx, j_json, j_disabled, j_persist, rvars, svars, avars>>

\* structured_data = _convert_range_to_structured(context["Data_>="], context["Data_<"]),
\* for a context that holds both bounds
ConvertRangeToStructured ==
    /\ j_pc = "lowered"
    /\ Truthy(GetOrNull(j_result.ctx, "Data_>=")) /\ Truthy(GetOrNull(j_result.ctx, "Data_<"))
    /\ j_result' = [ctx |-> j_result.ctx, mudancas |-> <<>>, persistentes |-> j_result.persistentes,
                    structured |-> _convert_range_to_structured(Get(j_result.ctx, "Data_>=").v,
                                                                Get(j_result.ctx, "Data_<").v)]
    /\ j_pc' = "lifted"
    /\ UNCHANGED <<j_valid, j_ctx, j_json, j_disabled, j_persist, rvars, svars, avars>>

NextRange == ConvertSqlJsonToContext \/ ConvertRangeToStructured

SpecRange == InitRange /\ [][NextRange]_vars

\* a structure names month mes of year ano
NamesMonth(structure, mes, ano) ==
    /\ structure.t = "dict"
    /\ Has(structure.v, "mes") /\ Has(structure.v, "ano")
    /\ ParseInt(Get(structure.v, "mes").v) = mes
    /\ ParseInt(Get(structure.v, "ano").v) = ano

\* C33: for every year and every month 1..12, the single-month structure
\* lowered by _convert_sql_json_to_context and lifted by
\* _convert_range_to_structured gives back that month and year; a same-year
\* interval {inicio: m1, fim: m2} with m1 < m2 is given back with m1 and m2.
C33_MonthRangeRoundTrip ==
    j_pc = "lifted" =>
        LET periodo == Get(j_json, "periodo").v
        IN /\ Has(periodo, "mes") =>
                NamesMonth(j_result.structured, ParseInt(Get(periodo, "mes").v), ParseInt(Get(periodo, "ano").v))
           /\ (/\ Has(periodo, "inicio")
               /\ ParseInt(Get(Get(periodo, "inicio").v, "mes").v) < ParseInt(Get(Get(periodo, "fim").v, "mes").v)) =>
                /\ j_result.structured.t = "dict"
                /\ Has(j_result.structured.v, "inicio") /\ Has(j_result.structured.v, "fim")
                /\ NamesMonth(Get(j_result.structured.v, "inicio"),
                              ParseInt(Get(Get(periodo, "inicio").v, "mes").v), ParseInt(Get(Get(periodo, "inicio").v, "ano").v))
                /\ NamesMonth(Get(j_result.structured.v, "fim"),
                              ParseInt(Get(Get(periodo, "fim").v, "mes").v), ParseInt(Get(Get(periodo, "fim").v, "ano").v))

\* ---------------------------------------------------------------------------
\* The date range over the turns of a session
\* ---------------------------------------------------------------------------

\* the texts of the turns: a year, a month of a year, a relative period
PeriodTexts == {<<"V","e","n","d","a","s"," ","e","m"," ","2","0","1","5">>, <<"v","e","n","d","a","s"," ","d","e"," ","m","a","r","ç","o"," ","d","e"," ","2","0","1","6">>, <<"ú","l","t","i","m","o","s"," ","3"," ","m","e","s","e","s">>}
\* the turns of a session, each through the resolver or through the store
MaxPeriodTurns == 3

\* a session starts with no filter, in the resolver's context and in the store
InitPeriods ==
    /\ r_pc = "done"
    /\ r_text = <<>>
    /\ r_max_date \in MaxDates /\ r_now = NoDate
    /\ r_new = EmptyDict
    /\ r_existing = EmptyDict
    /\ r_strategy = "smart"
    /\ r_result = NoResult
    /\ JsonIdle /\ StoreIdle /\ AppIdle

\* a turn: detect_filters_from_text on the text and the context of the turn
\* before, then resolve_conflicts ('smart')
ResolverTurn ==
    /\ Calls < MaxPeriodTurns
    /\ \E text \in PeriodTexts :
       \E detected \in {detect_filters_from_text(text, r_max_date)} :
        /\ r_text' = text
        /\ r_new' = detected
        /\ r_existing' = r_result.ctx
        /\ r_result' = resolve_conflicts(detected, r_result.ctx, "smart")
    /\ s_hist' = Called("resolve_conflicts", <<>>)
    /\ UNCHANGED <<r_max_date, r_now, r_strategy, r_pc, s_state, s_hash, jvars, avars>>

\* a turn: manager.process_user_query(text, max_date)
StoreTurn ==
    /\ Calls < MaxPeriodTurns
    /\ \E text \in PeriodTexts :
        /\ r_text' = text
        /\ s_state' = process_user_query(s_state, text, r_max_date)
    /\ s_hist' = Called("process_user_query", <<>>)
    /\ UNCHANGED <<r_max_date, r_now, r_new, r_existing, r_strategy, r_result, r_pc, s_hash, jvars, avars>>

NextPeriods == ResolverTurn \/ StoreTurn

SpecPeriods == InitPeriods /\ [][NextPeriods]_vars

\* date a is earlier than date b
Earlier(a, b) ==
    \/ a.y < b.y
    \/ a.y = b.y /\ a.m < b.m
    \/ a.y = b.y /\ a.m = b.m /\ a.d < b.d

\* a context that holds both bounds holds an earlier Data_>= than Data_<
WellFormedRange(context) ==
    (Has(context, "Data_>=") /\ Has(context, "Data_<")) =>
        Earlier(strptime(Get(context, "Data_>=").v), strptime(Get(context, "Data_<").v))

\* C34: after any sequence of turns, through detect_filters_from_text with
\* resolve_conflicts or through process_user_query, each text giving a year,
\* a month of a year or a relative period, a context that holds both Data_>=
\* and Data_< holds a Data_>= strictly earlier than its Data_<.
C34_WellFormedRange ==
    /\ WellFormedRange(r_result.ctx)
    /\ WellFormedRange(to_context_dict(s_state, TRUE))

\* ---- The disabled identifiers of the store ----

\* what disable_filter and enable_filter return: whether the identifier is stored
toggle_returns(state, id) == Has(state.filters, id)

ToggleOps == {"disable_filter", "enable_filter"}
UnstoredToggle ==
    /\ s_hist # <<>>
    /\ s_hist[1].op \in ToggleOps
    /\ ~ Has(s_hist[1].before.filters, s_hist[1].id)

\* C35: in every state of the store the disabled identifiers are identifiers of
\* stored filters, and a disable_filter or enable_filter on an identifier that
\* is not stored returns False and leaves the state as it was
C35_DisabledAreStored ==
    /\ s_state.disabled \subseteq Keys(s_state.filters)
    /\ UnstoredToggle =>
        /\ toggle_returns(s_hist[1].before, s_hist[1].id) = FALSE
        /\ s_state = s_hist[1].before

\* a filter was disabled, another one stays stored, and the call after it
\* toggled an identifier that is not stored
C35_Witness ==
    /\ UnstoredToggle
    /\ s_state.disabled # {}
    /\ Len(s_state.filters) > 1

\* ---- The keys of the existing context across a resolution ----

ResolvedWithoutClear == r_pc \in {"done", "again"} /\ ~Has(r_new, "clear_all_filters")
\* the context the latest call of resolve_conflicts was given
ExistingOfLatest == IF r_pc = "again" THEN r_result.first.ctx ELSE r_existing

----------------------------------------------------------------------------
(* The sidebar: the JSON manager synced with the context of every rerun and  *)
(* asked for its context and its summary                                     *)

\* valor is not None and valor != [] and valor != ""
Preenchido(valor) == valor # Null /\ valor # List(<<>>) /\ valor # Str(<<>>)

\* manager.obter_contexto_para_agente()
obter_contexto_para_agente(persistentes) ==
    LET RECURSIVE campos(_, _, _)
        campos(contexto, c, i) ==
            IF i > Len(c) THEN contexto
            ELSE campos(IF Preenchido(c[i].v) THEN Put(contexto, c[i].k, c[i].v) ELSE contexto, c, i + 1)
        RECURSIVE categorias(_, _)
        categorias(contexto, n) ==
            IF n > Len(persistentes) THEN contexto
            ELSE categorias(campos(contexto, persistentes[n].v.v, 1), n + 1)
    IN categorias(EmptyDict, 1)

\* the name a category has in the summary
nome_categoria(categoria) ==
    CASE categoria = "periodo" -> <<"t","e","m","p","o","r","a","l">>
      [] categoria = "regiao" -> <<"g","e","o","g","r","á","f","i","c","o">>
      [] categoria = "cliente" -> <<"c","l","i","e","n","t","e">>
      [] categoria = "produto" -> <<"p","r","o","d","u","t","o">>
      [] categoria = "representante" -> <<"r","e","p","r","e","s","e","n","t","a","n","t","e">>

\* the text of the summary for the counts [categoria, count] of the categories
resumo_de(counts) ==
    LET filtros_ativos == SelectSeq(counts, LAMBDA e : e.count > 0)
        RECURSIVE join(_)
        join(i) ==
            IF i > Len(filtros_ativos) THEN <<>>
            ELSE (IF i > 1 THEN <<","," ">> ELSE <<>>)
                    \o IntStr(filtros_ativos[i].count) \o <<" ">> \o nome_categoria(filtros_ativos[i].categoria)
                    \o join(i + 1)
    IN IF filtros_ativos = <<>> THEN <<"N","e","n","h","u","m"," ","f","i","l","t","r","o"," ","a","t","i","v","o">> ELSE <<"F","i","l","t","r","o","s"," ","a","t","i","v","o","s",":"," ">> \o join(1)

\* manager.obter_resumo_filtros_ativos()
obter_resumo_filtros_ativos(persistentes) ==
    resumo_de([n \in DOMAIN persistentes |->
        [categoria |-> persistentes[n].k,
         count |-> Len(SelectSeq(persistentes[n].v.v, LAMBDA e : Preenchido(e.v)))]])

\* the reruns of the page in one session
MaxSyncs == 3

\* the contexts filter_user_friendly_context hands to the sidebar
SyncValues(k) == {ValueOld(k), ValueNew(k), Null, List(<<>>)}
SyncContexts ==
    {<<>>} \cup {<<Item("UF_Cliente", v)>> : v \in SyncValues("UF_Cliente")}
      \cup {<<Item("Data_>=", ValueOld("Data_>=")), Item("UF_Cliente", v)>> : v \in SyncValues("UF_Cliente")}
      \cup {<<Item("segmento", ValueOld("segmento")), Item("Municipio_Cliente", v)>> : v \in SyncValues("Municipio_Cliente")}

InitSummary ==
    /\ j_valid = Dataset
    /\ j_persist = filtros_iniciais
    /\ j_ctx = EmptyDict /\ j_json = EmptyDict /\ j_disabled = {}
    /\ j_result = NoJsonResult /\ j_pc = "idle"
    /\ ResolverIdle /\ StoreIdle /\ AppIdle

\* json_manager.sincronizar_com_contexto_agente(user_context) and
\* json_manager.obter_resumo_filtros_ativos(), with obter_contexto_para_agente();
\* the context synced is kept in j_ctx
SincronizarEResumir ==
    /\ Calls < MaxSyncs
    /\ \E user_context \in SyncContexts :
       \E persistentes \in {sincronizar_com_contexto_agente(j_persist, user_context)} :
        /\ j_ctx' = user_context
        /\ j_persist' = persistentes
        /\ j_result' = [ctx |-> obter_contexto_para_agente(persistentes),
                        summary |-> obter_resumo_filtros_ativos(persistentes)]
    /\ j_pc' = "synced"
    /\ s_hist' = Called("sincronizar_com_contexto_agente", <<>>)
    /\ UNCHANGED <<j_valid, j_json, j_disabled, s_state, s_hash, rvars, avars>>

NextSummary == SincronizarEResumir

SpecSummary == InitSummary /\ [][NextSummary]_vars

\* the non-empty categorised fields of a context
CategorisedFields(context) ==
    SelectSeq(context, LAMBDA e : _determinar_categoria(e.k) # "none" /\ Preenchido(e.v))
\* the summary that counts the fields of a context by category
SummaryOfFields(context) ==
    resumo_de([n \in DOMAIN filtros_iniciais |->
        [categoria |-> filtros_iniciais[n].k,
         count |-> Len(SelectSeq(context, LAMBDA e : _determinar_categoria(e.k) = filtros_iniciais[n].k))]])

\* C37: after sincronizar_com_contexto_agente(ctx) the context
\* obter_contexto_para_agente returns holds exactly the non-empty categorised
\* fields of ctx, and obter_resumo_filtros_ativos counts exactly those; a
\* filter of an earlier synced context that ctx does not hold, or holds as
\* null, is neither returned nor counted
C37_SummaryFollowsContext ==
    j_pc = "synced" =>
        /\ DictEq(j_result.ctx, CategorisedFields(j_ctx))
        /\ j_result.summary = SummaryOfFields(CategorisedFields(j_ctx))

\* ---- The context of the agent and the context of the session after a turn ----

\* the turn just ended and agent.run returned
TurnReturned == a_turn.n > 0 /\ a_turn.outcome \in {"done", "extraction_error"}

\* C38: at the end of a turn in which agent.run returned, the persistent
\* context of the agent equals the last_context of the session, and every key
\* of the context the agent ran with is a key of it
C38_AgentAndSessionAgree ==
    TurnReturned =>
        /\ a_turn.left = a_turn.stored
        /\ Keys(a_turn.ran_with) \subseteq Keys(a_turn.stored)

\* a turn that ran with a non-empty context and whose SQL changed the context
C38_Witness ==
    /\ TurnReturned /\ a_turn.outcome = "done"
    /\ a_turn.sql_queries # <<>>
    /\ a_turn.ran_with # EmptyDict
    /\ a_turn.stored # a_turn.ran_with
    /\ a_turn.left = a_turn.stored

----------------------------------------------------------------------------
(* One category of an extracted structure merged into a context, the         *)
(* candidates given as text, some of them as the empty text                  *)

\* the fields of the categories: of the domain index (UF_Cliente, Cod_Cliente),
\* permissive (cidade, segmento) and neither (Cod_Vendedor)
CategoryFields ==
    [regiao |-> {"UF_Cliente", "cidade"}, cliente |-> {"Cod_Cliente", "segmento"},
     representante |-> {"Cod_Vendedor"}]

\* the candidates of a category: one field, or two in either order; every
\* value the empty text or a text
CategoryCampos(categoria) ==
    LET items == UNION {{Item(k, EmptyStr), Item(k, ValueNew(k))} : k \in CategoryFields[categoria]}
    IN {<<a>> : a \in items} \cup {p \in items \X items : p[1].k # p[2].k}

\* the contexts that hold some of the fields of a category
CategoryContexts(categoria) ==
    {[i \in 1..Len(ks) |-> Item(ks[i], ValueOld(ks[i]))] :
        ks \in {<<>>} \cup {<<k>> : k \in CategoryFields[categoria]}}

InitCategoria ==
    /\ j_valid = Dataset
    /\ j_persist = filtros_iniciais
    /\ \E categoria \in DOMAIN CategoryFields :
        /\ j_json \in {<<Item(categoria, Dict(campos))>> : campos \in CategoryCampos(categoria)}
        /\ j_ctx \in CategoryContexts(categoria)
    /\ j_disabled = {}
    /\ j_result = NoJsonResult
    /\ j_pc = "categoria"
    /\ ResolverIdle /\ StoreIdle /\ AppIdle

\* manager._processar_categoria_com_merge(categoria, campos, contexto)
ProcessarCategoriaComMerge ==
    /\ j_pc = "categoria"
    /\ \E st \in {_processar_categoria_com_merge(j_valid, j_json[1].k, j_json[1].v.v,
                                                 [ctx |-> j_ctx, mudancas |-> <<>>])} :
        j_result' = [ctx |-> st.ctx, mudancas |-> st.mudancas, persistentes |-> j_persist]
    /\ j_pc' = "processed"
    /\ UNCHANGED <<j_valid, j_ctx, j_json, j_disabled, j_persist, rvars, svars, avars>>

NextCategoria == ProcessarCategoriaComMerge

SpecCategoria == InitCategoria /\ [][NextCategoria]_vars

\* the fields a category of the structure gives as the empty text
EmptyCandidates == {j_json[1].v.v[i].k : i \in {n \in DOMAIN j_json[1].v.v : j_json[1].v.v[n].v = EmptyStr}}
SameForField(campo) ==
    /\ Has(j_result.ctx, campo) = Has(j_ctx, campo)
    /\ GetOrNull(j_result.ctx, campo) = GetOrNull(j_ctx, campo)

\* C39: a candidate whose value is the empty string leaves the context as it
\* was for its field, whether the field has an entry in the domain index, is
\* permissive or is neither
C39_EmptyCandidateAddsNothing ==
    j_pc = "processed" => \A campo \in EmptyCandidates : SameForField(campo)

----------------------------------------------------------------------------
(* The store pulled from the context of the agent, between the SQL responses *)
(* and the queries it processes                                              *)

\* the contexts pulled: those of the agent, the two-key ones in either order
PullContexts == AgentContexts \cup {<<c[2], c[1]>> : c \in {x \in AgentContexts : Len(x) = 2}}

\* synchronizer.sync_from_agent_context(agent_context, filter_state); the
\* context given and the value returned are kept as the id of the call
PullAgentContext ==
    /\ Calls < MaxSqlCalls
    /\ \E agent_context \in PullContexts :
        \E pulled \in {sync_from_agent_context(agent_context, s_state, s_hash)} :
            /\ s_state' = pulled.state
            /\ s_hash' = pulled.hash
            /\ s_hist' = Called("pull", [agent_context |-> agent_context, returned |-> pulled.changes_made])
    /\ UNCHANGED <<rvars, jvars, avars>>

NextPull == PullAgentContext \/ ProcessSqlResponse \/ ProcessUserQuery

SpecPull == InitStore /\ [][NextPull]_vars

Pulled == s_hist # <<>> /\ s_hist[1].op = "pull"
\* the pull before was the call before, of a context with the same items
PulledAgain ==
    /\ Pulled /\ Len(s_hist) > 1 /\ s_hist[2].op = "pull"
    /\ DictEq(s_hist[1].id.agent_context, s_hist[2].id.agent_context)

\* C40: when sync_from_agent_context(ctx, state) has returned, the context of
\* all the filters of the store, disabled ones included, equals ctx, whatever
\* process_sql_response and process_user_query did to the store since the pull
\* before; and the pull of a context with the items of the one pulled by the
\* call before returns False
C40_PullMatchesContext ==
    /\ Pulled => DictEq(to_context_dict(s_state, FALSE), s_hist[1].id.agent_context)
    /\ PulledAgain => s_hist[1].id.returned = FALSE

====
